---------------------------- MODULE Spec2Model ----------------------------
(***************************************************************************)
(* Model of src/bot.py: the Telegram handlers (cmd_start, cmd_status,      *)
(* on_lang_callback, on_message), the session store with its JSON file,    *)
(* the deterministic profit calculator and the two-pass answer pipeline.   *)
(*                                                                         *)
(* Texts are tuples of Unicode code points, so that str.lower, str.strip,  *)
(* the "in" substring test and the regular expressions of the source are   *)
(* computed character by character.  src/bot.py stores its non-ASCII       *)
(* literals as UTF-8 bytes rendered in Mac Roman; the code points below    *)
(* are those of the UTF-8 text the bytes encode.                           *)
(*                                                                         *)
(* python-telegram-bot runs the handlers of one Application one update at  *)
(* a time (build_app does not enable concurrent_updates), so a handler is  *)
(* one action.                                                             *)
(***************************************************************************)
EXTENDS Integers, Sequences, FiniteSets, TLC

\* src/bot.py:176-181
LANG_LABELS == [
  UA |->
    <<127482, 127462, 32, 1059, 1082, 1088, 1072, 1111, 1085, 1089, 1100, 1082, 1072>>,
  RU |->
    <<127479, 127482, 32, 1056, 1091, 1089, 1089, 1082, 1080, 1081>>,
  EN |->
    <<127468, 127463, 32, 69, 110, 103, 108, 105, 115, 104>>,
  FR |->
    <<127467, 127479, 32, 70, 114, 97, 110, 231, 97, 105, 115>> ]

\* src/bot.py:184-225
MENU_LABELS == [
  UA |-> [
    what |->
      <<9749, 32, 1065, 1086, 32, 1090, 1072, 1082, 1077, 32, 77, 97, 105, 115, 111, 110, 32,
      100, 101, 32, 67, 97, 102, 233, 63>>,
    price |->
      <<128182, 32, 1057, 1082, 1110, 1083, 1100, 1082, 1080, 32, 1082, 1086, 1096, 1090, 1091,
      1108, 32, 1074, 1110, 1076, 1082, 1088, 1080, 1090, 1080, 63>>,
    payback |->
      <<128200, 32, 1054, 1082, 1091, 1087, 1085, 1110, 1089, 1090, 1100, 32, 1110, 32, 1087,
      1088, 1080, 1073, 1091, 1090, 1086, 1082>>,
    terms |->
      <<129309, 32, 1059, 1084, 1086, 1074, 1080, 32, 1089, 1087, 1110, 1074, 1087, 1088, 1072,
      1094, 1110>>,
    contacts |->
      <<128222, 32, 1050, 1086, 1085, 1090, 1072, 1082, 1090, 1080, 32, 47, 32, 1085, 1072,
      1089, 1090, 1091, 1087, 1085, 1080, 1081, 32, 1082, 1088, 1086, 1082>>,
    lead |->
      <<128221, 32, 1047, 1072, 1083, 1080, 1096, 1080, 1090, 1080, 32, 1079, 1072, 1103, 1074,
      1082, 1091>>,
    lang |->
      <<127757, 32, 1052, 1086, 1074, 1072>>,
    presentation |->
      <<128196, 32, 1055, 1088, 1077, 1079, 1077, 1085, 1090, 1072, 1094, 1110, 1103>> ],
  RU |-> [
    what |->
      <<9749, 32, 1063, 1090, 1086, 32, 1090, 1072, 1082, 1086, 1077, 32, 77, 97, 105, 115, 111,
      110, 32, 100, 101, 32, 67, 97, 102, 233, 63>>,
    price |->
      <<128182, 32, 1057, 1082, 1086, 1083, 1100, 1082, 1086, 32, 1089, 1090, 1086, 1080, 1090,
      32, 1086, 1090, 1082, 1088, 1099, 1090, 1100, 63>>,
    payback |->
      <<128200, 32, 1054, 1082, 1091, 1087, 1072, 1077, 1084, 1086, 1089, 1090, 1100, 32, 1080,
      32, 1087, 1088, 1080, 1073, 1099, 1083, 1100>>,
    terms |->
      <<129309, 32, 1059, 1089, 1083, 1086, 1074, 1080, 1103, 32, 1089, 1086, 1090, 1088, 1091,
      1076, 1085, 1080, 1095, 1077, 1089, 1090, 1074, 1072>>,
    contacts |->
      <<128222, 32, 1050, 1086, 1085, 1090, 1072, 1082, 1090, 1099, 32, 47, 32, 1089, 1083,
      1077, 1076, 1091, 1102, 1097, 1080, 1081, 32, 1096, 1072, 1075>>,
    lead |->
      <<128221, 32, 1054, 1089, 1090, 1072, 1074, 1080, 1090, 1100, 32, 1079, 1072, 1103, 1074,
      1082, 1091>>,
    lang |->
      <<127757, 32, 1071, 1079, 1099, 1082>>,
    presentation |->
      <<128196, 32, 1055, 1088, 1077, 1079, 1077, 1085, 1090, 1072, 1094, 1080, 1103>> ],
  EN |-> [
    what |->
      <<9749, 32, 87, 104, 97, 116, 32, 105, 115, 32, 77, 97, 105, 115, 111, 110, 32, 100, 101,
      32, 67, 97, 102, 233, 63>>,
    price |->
      <<128182, 32, 79, 112, 101, 110, 105, 110, 103, 32, 99, 111, 115, 116>>,
    payback |->
      <<128200, 32, 80, 97, 121, 98, 97, 99, 107, 32, 38, 32, 112, 114, 111, 102, 105, 116>>,
    terms |->
      <<129309, 32, 80, 97, 114, 116, 110, 101, 114, 115, 104, 105, 112, 32, 116, 101, 114, 109,
      115>>,
    contacts |->
      <<128222, 32, 67, 111, 110, 116, 97, 99, 116, 115, 32, 47, 32, 110, 101, 120, 116, 32,
      115, 116, 101, 112>>,
    lead |->
      <<128221, 32, 76, 101, 97, 118, 101, 32, 97, 32, 114, 101, 113, 117, 101, 115, 116>>,
    lang |->
      <<127757, 32, 76, 97, 110, 103, 117, 97, 103, 101>>,
    presentation |->
      <<128196, 32, 80, 114, 101, 115, 101, 110, 116, 97, 116, 105, 111, 110>> ],
  FR |-> [
    what |->
      <<9749, 32, 81, 117, 8217, 101, 115, 116, 45, 99, 101, 32, 113, 117, 101, 32, 77, 97, 105,
      115, 111, 110, 32, 100, 101, 32, 67, 97, 102, 233, 32, 63>>,
    price |->
      <<128182, 32, 67, 111, 251, 116, 32, 100, 101, 32, 108, 97, 110, 99, 101, 109, 101, 110,
      116>>,
    payback |->
      <<128200, 32, 82, 101, 110, 116, 97, 98, 105, 108, 105, 116, 233, 32, 38, 32, 112, 114,
      111, 102, 105, 116>>,
    terms |->
      <<129309, 32, 67, 111, 110, 100, 105, 116, 105, 111, 110, 115>>,
    contacts |->
      <<128222, 32, 67, 111, 110, 116, 97, 99, 116, 115, 32, 47, 32, 112, 114, 111, 99, 104, 97,
      105, 110, 101, 32, 233, 116, 97, 112, 101>>,
    lead |->
      <<128221, 32, 76, 97, 105, 115, 115, 101, 114, 32, 117, 110, 101, 32, 100, 101, 109, 97,
      110, 100, 101>>,
    lang |->
      <<127757, 32, 76, 97, 110, 103, 117, 101>>,
    presentation |->
      <<128196, 32, 80, 114, 233, 115, 101, 110, 116, 97, 116, 105, 111, 110>> ] ]

\* src/bot.py:227-232
CONTACTS_TEXT == [
  UA |->
    <<1050, 1086, 1085, 1090, 1072, 1082, 1090, 1080, 32, 77, 97, 105, 115, 111, 110, 32, 100,
    101, 32, 67, 97, 102, 233, 58, 10, 8226, 32, 69, 109, 97, 105, 108, 58, 32, 109, 97, 105,
    115, 111, 110, 100, 101, 99, 97, 102, 101, 46, 99, 111, 102, 102, 101, 101, 64, 103, 109,
    97, 105, 108, 46, 99, 111, 109, 10, 8226, 32, 1058, 1077, 1083, 1077, 1092, 1086, 1085, 58,
    32, 43, 51, 50, 32, 52, 55, 48, 32, 54, 48, 48, 32, 56, 48, 54, 10, 8226, 32, 84, 101, 108,
    101, 103, 114, 97, 109, 58, 32, 104, 116, 116, 112, 115, 58, 47, 47, 116, 46, 109, 101, 47,
    109, 97, 105, 115, 111, 110, 100, 101, 99, 97, 102, 101>>,
  RU |->
    <<1050, 1086, 1085, 1090, 1072, 1082, 1090, 1099, 32, 77, 97, 105, 115, 111, 110, 32, 100,
    101, 32, 67, 97, 102, 233, 58, 10, 8226, 32, 69, 109, 97, 105, 108, 58, 32, 109, 97, 105,
    115, 111, 110, 100, 101, 99, 97, 102, 101, 46, 99, 111, 102, 102, 101, 101, 64, 103, 109,
    97, 105, 108, 46, 99, 111, 109, 10, 8226, 32, 1058, 1077, 1083, 1077, 1092, 1086, 1085, 58,
    32, 43, 51, 50, 32, 52, 55, 48, 32, 54, 48, 48, 32, 56, 48, 54, 10, 8226, 32, 84, 101, 108,
    101, 103, 114, 97, 109, 58, 32, 104, 116, 116, 112, 115, 58, 47, 47, 116, 46, 109, 101, 47,
    109, 97, 105, 115, 111, 110, 100, 101, 99, 97, 102, 101>>,
  EN |->
    <<77, 97, 105, 115, 111, 110, 32, 100, 101, 32, 67, 97, 102, 233, 32, 99, 111, 110, 116, 97,
    99, 116, 115, 58, 10, 8226, 32, 69, 109, 97, 105, 108, 58, 32, 109, 97, 105, 115, 111, 110,
    100, 101, 99, 97, 102, 101, 46, 99, 111, 102, 102, 101, 101, 64, 103, 109, 97, 105, 108, 46,
    99, 111, 109, 10, 8226, 32, 80, 104, 111, 110, 101, 58, 32, 43, 51, 50, 32, 52, 55, 48, 32,
    54, 48, 48, 32, 56, 48, 54, 10, 8226, 32, 84, 101, 108, 101, 103, 114, 97, 109, 58, 32, 104,
    116, 116, 112, 115, 58, 47, 47, 116, 46, 109, 101, 47, 109, 97, 105, 115, 111, 110, 100,
    101, 99, 97, 102, 101>>,
  FR |->
    <<67, 111, 110, 116, 97, 99, 116, 115, 32, 77, 97, 105, 115, 111, 110, 32, 100, 101, 32, 67,
    97, 102, 233, 58, 10, 8226, 32, 69, 109, 97, 105, 108, 32, 58, 32, 109, 97, 105, 115, 111,
    110, 100, 101, 99, 97, 102, 101, 46, 99, 111, 102, 102, 101, 101, 64, 103, 109, 97, 105,
    108, 46, 99, 111, 109, 10, 8226, 32, 84, 233, 108, 233, 112, 104, 111, 110, 101, 32, 58, 32,
    43, 51, 50, 32, 52, 55, 48, 32, 54, 48, 48, 32, 56, 48, 54, 10, 8226, 32, 84, 101, 108, 101,
    103, 114, 97, 109, 32, 58, 32, 104, 116, 116, 112, 115, 58, 47, 47, 116, 46, 109, 101, 47,
    109, 97, 105, 115, 111, 110, 100, 101, 99, 97, 102, 101>> ]

\* src/bot.py:238-395
GOLD == [
  RU |-> [
    what |->
      <<1069, 1090, 1086, 32, 1093, 1086, 1088, 1086, 1096, 1080, 1081, 32, 1074, 1086, 1087,
      1088, 1086, 1089, 44, 32, 1089, 32, 1085, 1077, 1075, 1086, 32, 1086, 1073, 1099, 1095,
      1085, 1086, 32, 1080, 32, 1085, 1072, 1095, 1080, 1085, 1072, 1077, 1090, 1089, 1103, 32,
      1079, 1085, 1072, 1082, 1086, 1084, 1089, 1090, 1074, 1086, 46, 32, 77, 97, 105, 115, 111,
      110, 32, 100, 101, 32, 67, 97, 102, 233, 32, 8212, 32, 1101, 1090, 1086, 32, 1075, 1086,
      1090, 1086, 1074, 1072, 1103, 32, 1090, 1086, 1095, 1082, 1072, 32, 1089, 1072, 1084,
      1086, 1086, 1073, 1089, 1083, 1091, 1078, 1080, 1074, 1072, 1085, 1080, 1103, 32, 1087,
      1086, 1076, 32, 1082, 1083, 1102, 1095, 32, 1074, 32, 1041, 1077, 1083, 1100, 1075, 1080,
      1080, 46, 32, 1042, 1099, 32, 1087, 1086, 1083, 1091, 1095, 1072, 1077, 1090, 1077, 32,
      1087, 1088, 1086, 1092, 1077, 1089, 1089, 1080, 1086, 1085, 1072, 1083, 1100, 1085, 1099,
      1081, 32, 1082, 1086, 1092, 1077, 1081, 1085, 1099, 1081, 32, 1072, 1074, 1090, 1086,
      1084, 1072, 1090, 32, 74, 101, 116, 105, 110, 110, 111, 32, 74, 76, 45, 51, 48, 48, 44,
      32, 1092, 1080, 1088, 1084, 1077, 1085, 1085, 1091, 1102, 32, 1089, 1090, 1086, 1081,
      1082, 1091, 44, 32, 1089, 1080, 1089, 1090, 1077, 1084, 1091, 32, 1082, 1086, 1085, 1090,
      1088, 1086, 1083, 1103, 32, 1080, 32, 1089, 1090, 1072, 1088, 1090, 1086, 1074, 1099,
      1081, 32, 1085, 1072, 1073, 1086, 1088, 32, 1080, 1085, 1075, 1088, 1077, 1076, 1080,
      1077, 1085, 1090, 1086, 1074, 44, 32, 1072, 32, 1090, 1072, 1082, 1078, 1077, 32, 1086,
      1073, 1091, 1095, 1077, 1085, 1080, 1077, 32, 1080, 32, 1089, 1086, 1087, 1088, 1086,
      1074, 1086, 1078, 1076, 1077, 1085, 1080, 1077, 32, 1079, 1072, 1087, 1091, 1089, 1082,
      1072, 46, 32, 1060, 1086, 1088, 1084, 1072, 1090, 32, 1088, 1072, 1089, 1089, 1095, 1080,
      1090, 1072, 1085, 32, 1085, 1072, 32, 1073, 1099, 1089, 1090, 1088, 1099, 1081, 32, 1089,
      1090, 1072, 1088, 1090, 32, 1073, 1077, 1079, 32, 1086, 1087, 1099, 1090, 1072, 32, 1074,
      32, 1082, 1086, 1092, 1077, 1081, 1085, 1086, 1084, 32, 1073, 1080, 1079, 1085, 1077,
      1089, 1077, 32, 1080, 32, 1088, 1072, 1073, 1086, 1090, 1091, 32, 1073, 1077, 1079, 32,
      1087, 1077, 1088, 1089, 1086, 1085, 1072, 1083, 1072, 46, 32, 1044, 1072, 1083, 1100,
      1096, 1077, 32, 1083, 1086, 1075, 1080, 1095, 1085, 1086, 32, 1083, 1080, 1073, 1086, 32,
      1088, 1072, 1079, 1086, 1073, 1088, 1072, 1090, 1100, 32, 1089, 1090, 1086, 1080, 1084,
      1086, 1089, 1090, 1100, 32, 1079, 1072, 1087, 1091, 1089, 1082, 1072, 44, 32, 1083, 1080,
      1073, 1086, 32, 1087, 1086, 1089, 1084, 1086, 1090, 1088, 1077, 1090, 1100, 32, 1085,
      1072, 32, 1086, 1082, 1091, 1087, 1072, 1077, 1084, 1086, 1089, 1090, 1100, 32, 1080, 32,
      1088, 1077, 1072, 1083, 1100, 1085, 1099, 1077, 32, 1094, 1080, 1092, 1088, 1099, 46>>,
    price |->
      <<1069, 1090, 1086, 32, 1093, 1086, 1088, 1086, 1096, 1080, 1081, 32, 1074, 1086, 1087,
      1088, 1086, 1089, 44, 32, 1076, 1072, 1074, 1072, 1081, 1090, 1077, 32, 1076, 1077, 1090,
      1072, 1083, 1100, 1085, 1086, 32, 1088, 1072, 1079, 1073, 1077, 1088, 1077, 1084, 32,
      1101, 1090, 1086, 1090, 32, 1074, 1086, 1087, 1088, 1086, 1089, 46, 32, 1041, 1072, 1079,
      1086, 1074, 1072, 1103, 32, 1089, 1090, 1086, 1080, 1084, 1086, 1089, 1090, 1100, 32,
      1079, 1072, 1087, 1091, 1089, 1082, 1072, 32, 1090, 1086, 1095, 1082, 1080, 32, 77, 97,
      105, 115, 111, 110, 32, 100, 101, 32, 67, 97, 102, 233, 32, 1074, 32, 1041, 1077, 1083,
      1100, 1075, 1080, 1080, 32, 1089, 1086, 1089, 1090, 1072, 1074, 1083, 1103, 1077, 1090,
      32, 57, 32, 56, 48, 48, 32, 8364, 46, 32, 1042, 32, 1101, 1090, 1091, 32, 1089, 1091,
      1084, 1084, 1091, 32, 1074, 1093, 1086, 1076, 1080, 1090, 32, 1087, 1088, 1086, 1092,
      1077, 1089, 1089, 1080, 1086, 1085, 1072, 1083, 1100, 1085, 1099, 1081, 32, 1072, 1074,
      1090, 1086, 1084, 1072, 1090, 32, 74, 101, 116, 105, 110, 110, 111, 32, 74, 76, 45, 51,
      48, 48, 44, 32, 1092, 1080, 1088, 1084, 1077, 1085, 1085, 1072, 1103, 32, 1089, 1090,
      1086, 1081, 1082, 1072, 44, 32, 1090, 1077, 1083, 1077, 1084, 1077, 1090, 1088, 1080,
      1103, 44, 32, 1089, 1090, 1072, 1088, 1090, 1086, 1074, 1099, 1081, 32, 1085, 1072, 1073,
      1086, 1088, 32, 1080, 1085, 1075, 1088, 1077, 1076, 1080, 1077, 1085, 1090, 1086, 1074,
      44, 32, 1086, 1073, 1091, 1095, 1077, 1085, 1080, 1077, 32, 1080, 32, 1087, 1086, 1083,
      1085, 1099, 1081, 32, 1079, 1072, 1087, 1091, 1089, 1082, 46, 32, 1069, 1090, 1086, 32,
      1085, 1077, 32, 1092, 1088, 1072, 1085, 1096, 1080, 1079, 1072, 32, 1089, 32, 1087, 1072,
      1082, 1077, 1090, 1072, 1084, 1080, 32, 1080, 32, 1089, 1082, 1088, 1099, 1090, 1099,
      1084, 1080, 32, 1087, 1083, 1072, 1090, 1077, 1078, 1072, 1084, 1080, 32, 8212, 32, 1074,
      1099, 32, 1087, 1083, 1072, 1090, 1080, 1090, 1077, 32, 1079, 1072, 32, 1082, 1086, 1085,
      1082, 1088, 1077, 1090, 1085, 1086, 1077, 32, 1086, 1073, 1086, 1088, 1091, 1076, 1086,
      1074, 1072, 1085, 1080, 1077, 32, 1080, 32, 1089, 1077, 1088, 1074, 1080, 1089, 46, 32,
      1054, 1090, 1076, 1077, 1083, 1100, 1085, 1086, 32, 1086, 1073, 1099, 1095, 1085, 1086,
      32, 1091, 1095, 1080, 1090, 1099, 1074, 1072, 1102, 1090, 1089, 1103, 32, 1090, 1086,
      1083, 1100, 1082, 1086, 32, 1074, 1077, 1097, 1080, 44, 32, 1079, 1072, 1074, 1080, 1089,
      1103, 1097, 1080, 1077, 32, 1086, 1090, 32, 1074, 1072, 1096, 1077, 1081, 32, 1089, 1080,
      1090, 1091, 1072, 1094, 1080, 1080, 44, 32, 1085, 1072, 1087, 1088, 1080, 1084, 1077,
      1088, 32, 1072, 1088, 1077, 1085, 1076, 1072, 32, 1083, 1086, 1082, 1072, 1094, 1080,
      1080, 32, 1080, 1083, 1080, 32, 1101, 1083, 1077, 1082, 1090, 1088, 1080, 1095, 1077,
      1089, 1090, 1074, 1086, 46, 32, 1044, 1072, 1083, 1100, 1096, 1077, 32, 1083, 1086, 1075,
      1080, 1095, 1085, 1086, 32, 1083, 1080, 1073, 1086, 32, 1087, 1086, 1089, 1084, 1086,
      1090, 1088, 1077, 1090, 1100, 32, 1086, 1082, 1091, 1087, 1072, 1077, 1084, 1086, 1089,
      1090, 1100, 44, 32, 1083, 1080, 1073, 1086, 32, 1086, 1073, 1089, 1091, 1076, 1080, 1090,
      1100, 32, 1074, 1072, 1096, 1091, 32, 1073, 1091, 1076, 1091, 1097, 1091, 1102, 32, 1083,
      1086, 1082, 1072, 1094, 1080, 1102, 46>>,
    payback |->
      <<1069, 1090, 1086, 32, 1093, 1086, 1088, 1086, 1096, 1080, 1081, 32, 1074, 1086, 1087,
      1088, 1086, 1089, 44, 32, 1076, 1072, 1074, 1072, 1081, 1090, 1077, 32, 1076, 1077, 1090,
      1072, 1083, 1100, 1085, 1086, 32, 1088, 1072, 1079, 1073, 1077, 1088, 1077, 1084, 32,
      1101, 1090, 1086, 1090, 32, 1074, 1086, 1087, 1088, 1086, 1089, 46, 32, 1042, 32, 1073,
      1072, 1079, 1086, 1074, 1086, 1081, 32, 1084, 1086, 1076, 1077, 1083, 1080, 32, 77, 97,
      105, 115, 111, 110, 32, 100, 101, 32, 67, 97, 102, 233, 32, 1089, 1088, 1077, 1076, 1085,
      1103, 1103, 32, 1084, 1072, 1088, 1078, 1072, 32, 1089, 32, 1086, 1076, 1085, 1086, 1081,
      32, 1095, 1072, 1096, 1082, 1080, 32, 1089, 1086, 1089, 1090, 1072, 1074, 1083, 1103,
      1077, 1090, 32, 1086, 1082, 1086, 1083, 1086, 32, 49, 44, 56, 32, 8364, 44, 32, 1072, 32,
      1090, 1080, 1087, 1080, 1095, 1085, 1099, 1081, 32, 1086, 1073, 1098, 1105, 1084, 32,
      1087, 1088, 1086, 1076, 1072, 1078, 32, 8212, 32, 1087, 1088, 1080, 1084, 1077, 1088,
      1085, 1086, 32, 51, 53, 32, 1095, 1072, 1096, 1077, 1082, 32, 1074, 32, 1076, 1077, 1085,
      1100, 46, 32, 1069, 1090, 1086, 32, 1076, 1072, 1105, 1090, 32, 1074, 1072, 1083, 1086,
      1074, 1091, 1102, 32, 1084, 1072, 1088, 1078, 1091, 32, 1087, 1086, 1088, 1103, 1076,
      1082, 1072, 32, 49, 32, 57, 48, 48, 32, 8364, 32, 1074, 32, 1084, 1077, 1089, 1103, 1094,
      44, 32, 1080, 1079, 32, 1082, 1086, 1090, 1086, 1088, 1086, 1081, 32, 1087, 1086, 1089,
      1083, 1077, 32, 1089, 1090, 1072, 1085, 1076, 1072, 1088, 1090, 1085, 1099, 1093, 32,
      1088, 1072, 1089, 1093, 1086, 1076, 1086, 1074, 32, 1086, 1073, 1099, 1095, 1085, 1086,
      32, 1086, 1089, 1090, 1072, 1105, 1090, 1089, 1103, 32, 1086, 1082, 1086, 1083, 1086, 32,
      49, 32, 50, 48, 48, 8211, 49, 32, 51, 48, 48, 32, 8364, 32, 1095, 1080, 1089, 1090, 1086,
      1081, 32, 1087, 1088, 1080, 1073, 1099, 1083, 1080, 46, 32, 1055, 1088, 1080, 32, 1090,
      1072, 1082, 1080, 1093, 32, 1087, 1086, 1082, 1072, 1079, 1072, 1090, 1077, 1083, 1103,
      1093, 32, 1090, 1086, 1095, 1082, 1072, 32, 1074, 1099, 1093, 1086, 1076, 1080, 1090, 32,
      1085, 1072, 32, 1086, 1082, 1091, 1087, 1072, 1077, 1084, 1086, 1089, 1090, 1100, 32,
      1074, 32, 1089, 1088, 1077, 1076, 1085, 1077, 1084, 32, 1079, 1072, 32, 57, 8211, 49, 50,
      32, 1084, 1077, 1089, 1103, 1094, 1077, 1074, 44, 32, 1085, 1086, 32, 1088, 1077, 1072,
      1083, 1100, 1085, 1099, 1081, 32, 1088, 1077, 1079, 1091, 1083, 1100, 1090, 1072, 1090,
      32, 1074, 1089, 1077, 1075, 1076, 1072, 32, 1079, 1072, 1074, 1080, 1089, 1080, 1090, 32,
      1086, 1090, 32, 1083, 1086, 1082, 1072, 1094, 1080, 1080, 32, 1080, 32, 1087, 1086, 1090,
      1086, 1082, 1072, 32, 1083, 1102, 1076, 1077, 1081, 46, 32, 1052, 1086, 1078, 1077, 1084,
      32, 1088, 1072, 1079, 1086, 1073, 1088, 1072, 1090, 1100, 32, 1082, 1086, 1085, 1082,
      1088, 1077, 1090, 1085, 1086, 1077, 32, 1084, 1077, 1089, 1090, 1086, 32, 1080, 1083,
      1080, 32, 1087, 1077, 1088, 1077, 1081, 1090, 1080, 32, 1082, 32, 1091, 1089, 1083, 1086,
      1074, 1080, 1103, 1084, 32, 1089, 1086, 1090, 1088, 1091, 1076, 1085, 1080, 1095, 1077,
      1089, 1090, 1074, 1072, 46>>,
    terms |->
      <<1069, 1090, 1086, 32, 1093, 1086, 1088, 1086, 1096, 1080, 1081, 32, 1074, 1086, 1087,
      1088, 1086, 1089, 44, 32, 1076, 1072, 1074, 1072, 1081, 1090, 1077, 32, 1076, 1077, 1090,
      1072, 1083, 1100, 1085, 1086, 32, 1088, 1072, 1079, 1073, 1077, 1088, 1077, 1084, 32,
      1101, 1090, 1086, 1090, 32, 1074, 1086, 1087, 1088, 1086, 1089, 46, 32, 77, 97, 105, 115,
      111, 110, 32, 100, 101, 32, 67, 97, 102, 233, 32, 8212, 32, 1101, 1090, 1086, 32, 1085,
      1077, 32, 1082, 1083, 1072, 1089, 1089, 1080, 1095, 1077, 1089, 1082, 1072, 1103, 32,
      1092, 1088, 1072, 1085, 1096, 1080, 1079, 1072, 32, 1089, 32, 1078, 1105, 1089, 1090,
      1082, 1080, 1084, 1080, 32, 1087, 1088, 1072, 1074, 1080, 1083, 1072, 1084, 1080, 32,
      1080, 32, 1087, 1072, 1091, 1096, 1072, 1083, 1100, 1085, 1099, 1084, 1080, 32, 1074,
      1079, 1085, 1086, 1089, 1072, 1084, 1080, 46, 32, 1069, 1090, 1086, 32, 1087, 1072, 1088,
      1090, 1085, 1105, 1088, 1089, 1082, 1072, 1103, 32, 1084, 1086, 1076, 1077, 1083, 1100,
      58, 32, 1074, 1099, 32, 1080, 1085, 1074, 1077, 1089, 1090, 1080, 1088, 1091, 1077, 1090,
      1077, 32, 1074, 32, 1086, 1073, 1086, 1088, 1091, 1076, 1086, 1074, 1072, 1085, 1080,
      1077, 32, 1080, 32, 1091, 1087, 1088, 1072, 1074, 1083, 1103, 1077, 1090, 1077, 32, 1090,
      1086, 1095, 1082, 1086, 1081, 44, 32, 1072, 32, 1084, 1099, 32, 1086, 1073, 1077, 1089,
      1087, 1077, 1095, 1080, 1074, 1072, 1077, 1084, 32, 1087, 1088, 1086, 1076, 1091, 1082,
      1090, 44, 32, 1089, 1090, 1072, 1085, 1076, 1072, 1088, 1090, 1099, 32, 1082, 1072, 1095,
      1077, 1089, 1090, 1074, 1072, 44, 32, 1086, 1073, 1091, 1095, 1077, 1085, 1080, 1077, 32,
      1080, 32, 1087, 1086, 1076, 1076, 1077, 1088, 1078, 1082, 1091, 32, 1085, 1072, 32, 1089,
      1090, 1072, 1088, 1090, 1077, 46, 32, 1059, 32, 1074, 1072, 1089, 32, 1086, 1089, 1090,
      1072, 1105, 1090, 1089, 1103, 32, 1089, 1074, 1086, 1073, 1086, 1076, 1072, 32, 1074, 32,
      1074, 1099, 1073, 1086, 1088, 1077, 32, 1083, 1086, 1082, 1072, 1094, 1080, 1080, 32,
      1080, 32, 1091, 1087, 1088, 1072, 1074, 1083, 1077, 1085, 1080, 1080, 32, 1073, 1080,
      1079, 1085, 1077, 1089, 1086, 1084, 46, 32, 1052, 1086, 1078, 1077, 1084, 32, 1086, 1073,
      1089, 1091, 1076, 1080, 1090, 1100, 32, 1074, 1072, 1096, 1091, 32, 1080, 1076, 1077,
      1102, 32, 1080, 1083, 1080, 32, 1087, 1077, 1088, 1077, 1081, 1090, 1080, 32, 1082, 32,
      1089, 1083, 1077, 1076, 1091, 1102, 1097, 1077, 1084, 1091, 32, 1096, 1072, 1075, 1091,
      46>>,
    contacts |->
      <<1069, 1090, 1086, 32, 1093, 1086, 1088, 1086, 1096, 1080, 1081, 32, 1074, 1086, 1087,
      1088, 1086, 1089, 44, 32, 1076, 1072, 1074, 1072, 1081, 1090, 1077, 32, 1076, 1077, 1090,
      1072, 1083, 1100, 1085, 1086, 32, 1088, 1072, 1079, 1073, 1077, 1088, 1077, 1084, 32,
      1101, 1090, 1086, 1090, 32, 1074, 1086, 1087, 1088, 1086, 1089, 46, 32, 1045, 1089, 1083,
      1080, 32, 1074, 1099, 32, 1076, 1086, 1096, 1083, 1080, 32, 1076, 1086, 32, 1101, 1090,
      1086, 1075, 1086, 32, 1101, 1090, 1072, 1087, 1072, 44, 32, 1079, 1085, 1072, 1095, 1080,
      1090, 32, 1092, 1086, 1088, 1084, 1072, 1090, 32, 1074, 1072, 1084, 32, 1076, 1077, 1081,
      1089, 1090, 1074, 1080, 1090, 1077, 1083, 1100, 1085, 1086, 32, 1080, 1085, 1090, 1077,
      1088, 1077, 1089, 1077, 1085, 46, 32, 1057, 1072, 1084, 1099, 1081, 32, 1087, 1086, 1083,
      1077, 1079, 1085, 1099, 1081, 32, 1089, 1083, 1077, 1076, 1091, 1102, 1097, 1080, 1081,
      32, 1096, 1072, 1075, 32, 8212, 32, 1082, 1086, 1088, 1086, 1090, 1082, 1086, 32, 1086,
      1073, 1089, 1091, 1076, 1080, 1090, 1100, 32, 1074, 1072, 1096, 1091, 32, 1089, 1080,
      1090, 1091, 1072, 1094, 1080, 1102, 58, 32, 1083, 1086, 1082, 1072, 1094, 1080, 1102, 44,
      32, 1073, 1102, 1076, 1078, 1077, 1090, 32, 1080, 32, 1086, 1078, 1080, 1076, 1072, 1085,
      1080, 1103, 46, 32, 1058, 1072, 1082, 32, 1089, 1090, 1072, 1085, 1086, 1074, 1080, 1090,
      1089, 1103, 32, 1087, 1086, 1085, 1103, 1090, 1085, 1086, 44, 32, 1085, 1072, 1089, 1082,
      1086, 1083, 1100, 1082, 1086, 32, 77, 97, 105, 115, 111, 110, 32, 100, 101, 32, 67, 97,
      102, 233, 32, 1087, 1086, 1076, 1093, 1086, 1076, 1080, 1090, 32, 1080, 1084, 1077, 1085,
      1085, 1086, 32, 1074, 1072, 1084, 44, 32, 1073, 1077, 1079, 32, 1090, 1077, 1086, 1088,
      1080, 1080, 32, 1080, 32, 1083, 1080, 1096, 1085, 1080, 1093, 32, 1086, 1073, 1077, 1097,
      1072, 1085, 1080, 1081, 46, 32, 1052, 1086, 1078, 1077, 1084, 32, 1083, 1080, 1073, 1086,
      32, 1086, 1092, 1086, 1088, 1084, 1080, 1090, 1100, 32, 1079, 1072, 1103, 1074, 1082,
      1091, 32, 1080, 32, 1088, 1072, 1079, 1086, 1073, 1088, 1072, 1090, 1100, 32, 1074, 1089,
      1105, 32, 1087, 1077, 1088, 1089, 1086, 1085, 1072, 1083, 1100, 1085, 1086, 44, 32, 1083,
      1080, 1073, 1086, 32, 1074, 1077, 1088, 1085, 1091, 1090, 1100, 1089, 1103, 32, 1082, 32,
      1094, 1080, 1092, 1088, 1072, 1084, 32, 1080, 32, 1077, 1097, 1105, 32, 1088, 1072, 1079,
      32, 1089, 1087, 1086, 1082, 1086, 1081, 1085, 1086, 32, 1087, 1088, 1086, 1081, 1090,
      1080, 1089, 1100, 32, 1087, 1086, 32, 1086, 1082, 1091, 1087, 1072, 1077, 1084, 1086,
      1089, 1090, 1080, 46>> ],
  UA |-> [
    what |->
      <<1062, 1077, 32, 1093, 1086, 1088, 1086, 1096, 1080, 1081, 32, 1079, 1072, 1087, 1080,
      1090, 32, 8212, 32, 1079, 32, 1085, 1100, 1086, 1075, 1086, 32, 1079, 1072, 1079, 1074,
      1080, 1095, 1072, 1081, 32, 1110, 32, 1087, 1086, 1095, 1080, 1085, 1072, 1108, 1090,
      1100, 1089, 1103, 32, 1079, 1085, 1072, 1081, 1086, 1084, 1089, 1090, 1074, 1086, 46, 32,
      77, 97, 105, 115, 111, 110, 32, 100, 101, 32, 67, 97, 102, 233, 32, 8212, 32, 1094, 1077,
      32, 1075, 1086, 1090, 1086, 1074, 1072, 32, 1090, 1086, 1095, 1082, 1072, 32, 1089, 1072,
      1084, 1086, 1086, 1073, 1089, 1083, 1091, 1075, 1086, 1074, 1091, 1074, 1072, 1085, 1085,
      1103, 32, 171, 1087, 1110, 1076, 32, 1082, 1083, 1102, 1095, 187, 32, 1091, 32, 1041,
      1077, 1083, 1100, 1075, 1110, 1111, 46, 32, 1042, 1080, 32, 1086, 1090, 1088, 1080, 1084,
      1091, 1108, 1090, 1077, 32, 1087, 1088, 1086, 1092, 1077, 1089, 1110, 1081, 1085, 1080,
      1081, 32, 1072, 1074, 1090, 1086, 1084, 1072, 1090, 32, 74, 101, 116, 105, 110, 110, 111,
      32, 74, 76, 45, 51, 48, 48, 44, 32, 1092, 1110, 1088, 1084, 1086, 1074, 1091, 32, 1089,
      1090, 1110, 1081, 1082, 1091, 44, 32, 1089, 1080, 1089, 1090, 1077, 1084, 1091, 32, 1082,
      1086, 1085, 1090, 1088, 1086, 1083, 1102, 32, 1090, 1072, 32, 1089, 1090, 1072, 1088,
      1090, 1086, 1074, 1080, 1081, 32, 1085, 1072, 1073, 1110, 1088, 32, 1110, 1085, 1075,
      1088, 1077, 1076, 1110, 1108, 1085, 1090, 1110, 1074, 44, 32, 1072, 32, 1090, 1072, 1082,
      1086, 1078, 32, 1085, 1072, 1074, 1095, 1072, 1085, 1085, 1103, 32, 1110, 32, 1089, 1091,
      1087, 1088, 1086, 1074, 1110, 1076, 32, 1079, 1072, 1087, 1091, 1089, 1082, 1091, 46, 32,
      1060, 1086, 1088, 1084, 1072, 1090, 32, 1088, 1086, 1079, 1088, 1072, 1093, 1086, 1074,
      1072, 1085, 1080, 1081, 32, 1085, 1072, 32, 1096, 1074, 1080, 1076, 1082, 1080, 1081, 32,
      1089, 1090, 1072, 1088, 1090, 32, 1073, 1077, 1079, 32, 1076, 1086, 1089, 1074, 1110,
      1076, 1091, 32, 1090, 1072, 32, 1088, 1086, 1073, 1086, 1090, 1091, 32, 1073, 1077, 1079,
      32, 1087, 1077, 1088, 1089, 1086, 1085, 1072, 1083, 1091, 46, 32, 1044, 1072, 1083, 1110,
      32, 1083, 1086, 1075, 1110, 1095, 1085, 1086, 32, 1072, 1073, 1086, 32, 1088, 1086, 1079,
      1110, 1073, 1088, 1072, 1090, 1080, 32, 1074, 1072, 1088, 1090, 1110, 1089, 1090, 1100,
      32, 1079, 1072, 1087, 1091, 1089, 1082, 1091, 44, 32, 1072, 1073, 1086, 32, 1087, 1077,
      1088, 1077, 1081, 1090, 1080, 32, 1076, 1086, 32, 1086, 1082, 1091, 1087, 1085, 1086,
      1089, 1090, 1110, 32, 1090, 1072, 32, 1094, 1080, 1092, 1088, 46>>,
    price |->
      <<1062, 1077, 32, 1093, 1086, 1088, 1086, 1096, 1080, 1081, 32, 1079, 1072, 1087, 1080,
      1090, 44, 32, 1076, 1072, 1074, 1072, 1081, 1090, 1077, 32, 1076, 1077, 1090, 1072, 1083,
      1100, 1085, 1086, 32, 1088, 1086, 1079, 1073, 1077, 1088, 1077, 1084, 1086, 32, 1094,
      1077, 32, 1087, 1080, 1090, 1072, 1085, 1085, 1103, 46, 32, 1041, 1072, 1079, 1086, 1074,
      1072, 32, 1074, 1072, 1088, 1090, 1110, 1089, 1090, 1100, 32, 1079, 1072, 1087, 1091,
      1089, 1082, 1091, 32, 1090, 1086, 1095, 1082, 1080, 32, 77, 97, 105, 115, 111, 110, 32,
      100, 101, 32, 67, 97, 102, 233, 32, 1074, 32, 1041, 1077, 1083, 1100, 1075, 1110, 1111,
      32, 8212, 32, 57, 32, 56, 48, 48, 32, 8364, 46, 32, 1059, 32, 1094, 1102, 32, 1089, 1091,
      1084, 1091, 32, 1074, 1093, 1086, 1076, 1080, 1090, 1100, 32, 74, 101, 116, 105, 110, 110,
      111, 32, 74, 76, 45, 51, 48, 48, 44, 32, 1092, 1110, 1088, 1084, 1086, 1074, 1072, 32,
      1089, 1090, 1110, 1081, 1082, 1072, 44, 32, 1090, 1077, 1083, 1077, 1084, 1077, 1090,
      1088, 1110, 1103, 44, 32, 1089, 1090, 1072, 1088, 1090, 1086, 1074, 1080, 1081, 32, 1085,
      1072, 1073, 1110, 1088, 32, 1110, 1085, 1075, 1088, 1077, 1076, 1110, 1108, 1085, 1090,
      1110, 1074, 44, 32, 1085, 1072, 1074, 1095, 1072, 1085, 1085, 1103, 32, 1090, 1072, 32,
      1087, 1086, 1074, 1085, 1080, 1081, 32, 1079, 1072, 1087, 1091, 1089, 1082, 46, 32, 1062,
      1077, 32, 1085, 1077, 32, 1082, 1083, 1072, 1089, 1080, 1095, 1085, 1072, 32, 1092, 1088,
      1072, 1085, 1096, 1080, 1079, 1072, 32, 1079, 32, 1087, 1072, 1082, 1077, 1090, 1072,
      1084, 1080, 32, 1090, 1072, 32, 1087, 1088, 1080, 1093, 1086, 1074, 1072, 1085, 1080,
      1084, 1080, 32, 1087, 1083, 1072, 1090, 1077, 1078, 1072, 1084, 1080, 32, 8212, 32, 1074,
      1080, 32, 1087, 1083, 1072, 1090, 1080, 1090, 1077, 32, 1079, 1072, 32, 1082, 1086, 1085,
      1082, 1088, 1077, 1090, 1085, 1077, 32, 1086, 1073, 1083, 1072, 1076, 1085, 1072, 1085,
      1085, 1103, 32, 1110, 32, 1089, 1077, 1088, 1074, 1110, 1089, 46, 32, 1054, 1082, 1088,
      1077, 1084, 1086, 32, 1079, 1072, 1079, 1074, 1080, 1095, 1072, 1081, 32, 1083, 1080,
      1096, 1072, 1102, 1090, 1100, 1089, 1103, 32, 1090, 1110, 1083, 1100, 1082, 1080, 32,
      1074, 1080, 1090, 1088, 1072, 1090, 1080, 44, 32, 1097, 1086, 32, 1079, 1072, 1083, 1077,
      1078, 1072, 1090, 1100, 32, 1074, 1110, 1076, 32, 1074, 1072, 1096, 1086, 1111, 32, 1089,
      1080, 1090, 1091, 1072, 1094, 1110, 1111, 44, 32, 1085, 1072, 1087, 1088, 1080, 1082,
      1083, 1072, 1076, 32, 1086, 1088, 1077, 1085, 1076, 1072, 32, 1083, 1086, 1082, 1072,
      1094, 1110, 1111, 32, 1072, 1073, 1086, 32, 1077, 1083, 1077, 1082, 1090, 1088, 1080,
      1082, 1072, 46, 32, 1044, 1072, 1083, 1110, 32, 1083, 1086, 1075, 1110, 1095, 1085, 1086,
      32, 1072, 1073, 1086, 32, 1087, 1086, 1076, 1080, 1074, 1080, 1090, 1080, 1089, 1103, 32,
      1086, 1082, 1091, 1087, 1085, 1110, 1089, 1090, 1100, 44, 32, 1072, 1073, 1086, 32, 1086,
      1073, 1075, 1086, 1074, 1086, 1088, 1080, 1090, 1080, 32, 1074, 1072, 1096, 1091, 32,
      1084, 1072, 1081, 1073, 1091, 1090, 1085, 1102, 32, 1083, 1086, 1082, 1072, 1094, 1110,
      1102, 46>>,
    payback |->
      <<1062, 1077, 32, 1093, 1086, 1088, 1086, 1096, 1080, 1081, 32, 1079, 1072, 1087, 1080,
      1090, 44, 32, 1076, 1072, 1074, 1072, 1081, 1090, 1077, 32, 1076, 1077, 1090, 1072, 1083,
      1100, 1085, 1086, 32, 1088, 1086, 1079, 1073, 1077, 1088, 1077, 1084, 1086, 32, 1094,
      1077, 32, 1087, 1080, 1090, 1072, 1085, 1085, 1103, 46, 32, 1059, 32, 1073, 1072, 1079,
      1086, 1074, 1110, 1081, 32, 1084, 1086, 1076, 1077, 1083, 1110, 32, 77, 97, 105, 115, 111,
      110, 32, 100, 101, 32, 67, 97, 102, 233, 32, 1089, 1077, 1088, 1077, 1076, 1085, 1103, 32,
      1084, 1072, 1088, 1078, 1072, 32, 1079, 32, 1095, 1072, 1096, 1082, 1080, 32, 8212, 32,
      1073, 1083, 1080, 1079, 1100, 1082, 1086, 32, 49, 44, 56, 32, 8364, 44, 32, 1072, 32,
      1090, 1080, 1087, 1086, 1074, 1080, 1081, 32, 1086, 1073, 1089, 1103, 1075, 32, 8212, 32,
      1087, 1088, 1080, 1073, 1083, 1080, 1079, 1085, 1086, 32, 51, 53, 32, 1095, 1072, 1096,
      1086, 1082, 32, 1085, 1072, 32, 1076, 1077, 1085, 1100, 46, 32, 1062, 1077, 32, 1076,
      1072, 1108, 32, 1074, 1072, 1083, 1086, 1074, 1091, 32, 1084, 1072, 1088, 1078, 1091, 32,
      1073, 1083, 1080, 1079, 1100, 1082, 1086, 32, 49, 32, 57, 48, 48, 32, 8364, 32, 1085,
      1072, 32, 1084, 1110, 1089, 1103, 1094, 1100, 44, 32, 1079, 32, 1103, 1082, 1086, 1111,
      32, 1087, 1110, 1089, 1083, 1103, 32, 1089, 1090, 1072, 1085, 1076, 1072, 1088, 1090,
      1085, 1080, 1093, 32, 1074, 1080, 1090, 1088, 1072, 1090, 32, 1095, 1072, 1089, 1090,
      1086, 32, 1083, 1080, 1096, 1072, 1108, 1090, 1100, 1089, 1103, 32, 1073, 1083, 1080,
      1079, 1100, 1082, 1086, 32, 49, 32, 50, 48, 48, 8211, 49, 32, 51, 48, 48, 32, 8364, 32,
      1095, 1080, 1089, 1090, 1086, 1075, 1086, 32, 1088, 1077, 1079, 1091, 1083, 1100, 1090,
      1072, 1090, 1091, 46, 32, 1059, 32, 1089, 1077, 1088, 1077, 1076, 1085, 1100, 1086, 1084,
      1091, 32, 1086, 1082, 1091, 1087, 1085, 1110, 1089, 1090, 1100, 32, 1074, 1080, 1093,
      1086, 1076, 1080, 1090, 1100, 32, 1073, 1083, 1080, 1079, 1100, 1082, 1086, 32, 57, 8211,
      49, 50, 32, 1084, 1110, 1089, 1103, 1094, 1110, 1074, 44, 32, 1072, 1083, 1077, 32, 1088,
      1077, 1072, 1083, 1100, 1085, 1080, 1081, 32, 1088, 1077, 1079, 1091, 1083, 1100, 1090,
      1072, 1090, 32, 1079, 1072, 1083, 1077, 1078, 1080, 1090, 1100, 32, 1074, 1110, 1076, 32,
      1083, 1086, 1082, 1072, 1094, 1110, 1111, 32, 1110, 32, 1087, 1086, 1090, 1086, 1082,
      1091, 32, 1083, 1102, 1076, 1077, 1081, 46, 32, 1052, 1086, 1078, 1077, 1084, 1086, 32,
      1088, 1086, 1079, 1110, 1073, 1088, 1072, 1090, 1080, 32, 1082, 1086, 1085, 1082, 1088,
      1077, 1090, 1085, 1077, 32, 1084, 1110, 1089, 1094, 1077, 32, 1072, 1073, 1086, 32, 1087,
      1077, 1088, 1077, 1081, 1090, 1080, 32, 1076, 1086, 32, 1091, 1084, 1086, 1074, 32, 1089,
      1087, 1110, 1074, 1087, 1088, 1072, 1094, 1110, 46>>,
    terms |->
      <<1062, 1077, 32, 1093, 1086, 1088, 1086, 1096, 1080, 1081, 32, 1079, 1072, 1087, 1080,
      1090, 44, 32, 1076, 1072, 1074, 1072, 1081, 1090, 1077, 32, 1076, 1077, 1090, 1072, 1083,
      1100, 1085, 1086, 32, 1088, 1086, 1079, 1073, 1077, 1088, 1077, 1084, 1086, 32, 1094,
      1077, 32, 1087, 1080, 1090, 1072, 1085, 1085, 1103, 46, 32, 77, 97, 105, 115, 111, 110,
      32, 100, 101, 32, 67, 97, 102, 233, 32, 8212, 32, 1094, 1077, 32, 1085, 1077, 32, 1082,
      1083, 1072, 1089, 1080, 1095, 1085, 1072, 32, 1092, 1088, 1072, 1085, 1096, 1080, 1079,
      1072, 32, 1079, 32, 1087, 1072, 1091, 1096, 1072, 1083, 1100, 1085, 1080, 1084, 1080, 32,
      1074, 1085, 1077, 1089, 1082, 1072, 1084, 1080, 32, 1090, 1072, 32, 1078, 1086, 1088,
      1089, 1090, 1082, 1080, 1084, 1080, 32, 1087, 1088, 1072, 1074, 1080, 1083, 1072, 1084,
      1080, 46, 32, 1062, 1077, 32, 1087, 1072, 1088, 1090, 1085, 1077, 1088, 1089, 1100, 1082,
      1072, 32, 1084, 1086, 1076, 1077, 1083, 1100, 58, 32, 1074, 1080, 32, 1110, 1085, 1074,
      1077, 1089, 1090, 1091, 1108, 1090, 1077, 32, 1074, 32, 1086, 1073, 1083, 1072, 1076,
      1085, 1072, 1085, 1085, 1103, 32, 1110, 32, 1082, 1077, 1088, 1091, 1108, 1090, 1077, 32,
      1090, 1086, 1095, 1082, 1086, 1102, 44, 32, 1072, 32, 1084, 1080, 32, 1079, 1072, 1073,
      1077, 1079, 1087, 1077, 1095, 1091, 1108, 1084, 1086, 32, 1087, 1088, 1086, 1076, 1091,
      1082, 1090, 44, 32, 1089, 1090, 1072, 1085, 1076, 1072, 1088, 1090, 1080, 32, 1103, 1082,
      1086, 1089, 1090, 1110, 44, 32, 1085, 1072, 1074, 1095, 1072, 1085, 1085, 1103, 32, 1110,
      32, 1087, 1110, 1076, 1090, 1088, 1080, 1084, 1082, 1091, 32, 1085, 1072, 32, 1089, 1090,
      1072, 1088, 1090, 1110, 46, 32, 1059, 32, 1074, 1072, 1089, 32, 1079, 1072, 1083, 1080,
      1096, 1072, 1108, 1090, 1100, 1089, 1103, 32, 1089, 1074, 1086, 1073, 1086, 1076, 1072,
      32, 1091, 32, 1074, 1080, 1073, 1086, 1088, 1110, 32, 1083, 1086, 1082, 1072, 1094, 1110,
      1111, 32, 1090, 1072, 32, 1091, 1087, 1088, 1072, 1074, 1083, 1110, 1085, 1085, 1110, 32,
      1073, 1110, 1079, 1085, 1077, 1089, 1086, 1084, 46, 32, 1052, 1086, 1078, 1077, 1084,
      1086, 32, 1086, 1073, 1075, 1086, 1074, 1086, 1088, 1080, 1090, 1080, 32, 1074, 1072,
      1096, 1091, 32, 1110, 1076, 1077, 1102, 32, 1072, 1073, 1086, 32, 1087, 1077, 1088, 1077,
      1081, 1090, 1080, 32, 1076, 1086, 32, 1085, 1072, 1089, 1090, 1091, 1087, 1085, 1086,
      1075, 1086, 32, 1082, 1088, 1086, 1082, 1091, 46>>,
    contacts |->
      <<1062, 1077, 32, 1093, 1086, 1088, 1086, 1096, 1080, 1081, 32, 1079, 1072, 1087, 1080,
      1090, 44, 32, 1076, 1072, 1074, 1072, 1081, 1090, 1077, 32, 1076, 1077, 1090, 1072, 1083,
      1100, 1085, 1086, 32, 1088, 1086, 1079, 1073, 1077, 1088, 1077, 1084, 1086, 32, 1094,
      1077, 32, 1087, 1080, 1090, 1072, 1085, 1085, 1103, 46, 32, 1071, 1082, 1097, 1086, 32,
      1074, 1080, 32, 1076, 1110, 1081, 1096, 1083, 1080, 32, 1076, 1086, 32, 1094, 1100, 1086,
      1075, 1086, 32, 1077, 1090, 1072, 1087, 1091, 32, 8212, 32, 1079, 1085, 1072, 1095, 1080,
      1090, 1100, 32, 1092, 1086, 1088, 1084, 1072, 1090, 32, 1074, 1072, 1084, 32, 1089, 1087,
      1088, 1072, 1074, 1076, 1110, 32, 1094, 1110, 1082, 1072, 1074, 1080, 1081, 46, 32, 1053,
      1072, 1081, 1082, 1086, 1088, 1080, 1089, 1085, 1110, 1096, 1080, 1081, 32, 1085, 1072,
      1089, 1090, 1091, 1087, 1085, 1080, 1081, 32, 1082, 1088, 1086, 1082, 32, 8212, 32, 1082,
      1086, 1088, 1086, 1090, 1082, 1086, 32, 1086, 1073, 1075, 1086, 1074, 1086, 1088, 1080,
      1090, 1080, 32, 1074, 1072, 1096, 1091, 32, 1089, 1080, 1090, 1091, 1072, 1094, 1110,
      1102, 58, 32, 1083, 1086, 1082, 1072, 1094, 1110, 1102, 44, 32, 1073, 1102, 1076, 1078,
      1077, 1090, 32, 1110, 32, 1086, 1095, 1110, 1082, 1091, 1074, 1072, 1085, 1085, 1103, 46,
      32, 1058, 1072, 1082, 32, 1089, 1090, 1072, 1108, 32, 1079, 1088, 1086, 1079, 1091, 1084,
      1110, 1083, 1086, 44, 32, 1095, 1080, 32, 1087, 1110, 1076, 1093, 1086, 1076, 1080, 1090,
      1100, 32, 77, 97, 105, 115, 111, 110, 32, 100, 101, 32, 67, 97, 102, 233, 32, 1089, 1072,
      1084, 1077, 32, 1074, 1072, 1084, 44, 32, 1073, 1077, 1079, 32, 1090, 1077, 1086, 1088,
      1110, 1111, 32, 1110, 32, 1079, 1072, 1081, 1074, 1080, 1093, 32, 1086, 1073, 1110, 1094,
      1103, 1085, 1086, 1082, 46, 32, 1052, 1086, 1078, 1077, 1084, 1086, 32, 1072, 1073, 1086,
      32, 1079, 1072, 1083, 1080, 1096, 1080, 1090, 1080, 32, 1079, 1072, 1103, 1074, 1082,
      1091, 32, 1110, 32, 1088, 1086, 1079, 1110, 1073, 1088, 1072, 1090, 1080, 32, 1074, 1089,
      1077, 32, 1087, 1077, 1088, 1089, 1086, 1085, 1072, 1083, 1100, 1085, 1086, 44, 32, 1072,
      1073, 1086, 32, 1087, 1086, 1074, 1077, 1088, 1085, 1091, 1090, 1080, 1089, 1103, 32,
      1076, 1086, 32, 1094, 1080, 1092, 1088, 32, 1110, 32, 1089, 1087, 1086, 1082, 1110, 1081,
      1085, 1086, 32, 1087, 1088, 1086, 1081, 1090, 1080, 1089, 1103, 32, 1087, 1086, 32, 1086,
      1082, 1091, 1087, 1085, 1086, 1089, 1090, 1110, 46>> ],
  EN |-> [
    what |->
      <<84, 104, 97, 116, 8217, 115, 32, 97, 32, 103, 111, 111, 100, 32, 113, 117, 101, 115,
      116, 105, 111, 110, 32, 8212, 32, 105, 116, 8217, 115, 32, 117, 115, 117, 97, 108, 108,
      121, 32, 104, 111, 119, 32, 116, 104, 101, 32, 99, 111, 110, 118, 101, 114, 115, 97, 116,
      105, 111, 110, 32, 115, 116, 97, 114, 116, 115, 46, 32, 77, 97, 105, 115, 111, 110, 32,
      100, 101, 32, 67, 97, 102, 233, 32, 105, 115, 32, 97, 32, 116, 117, 114, 110, 107, 101,
      121, 32, 115, 101, 108, 102, 45, 115, 101, 114, 118, 105, 99, 101, 32, 99, 111, 102, 102,
      101, 101, 32, 112, 111, 105, 110, 116, 32, 105, 110, 32, 66, 101, 108, 103, 105, 117, 109,
      46, 32, 89, 111, 117, 32, 103, 101, 116, 32, 97, 32, 74, 101, 116, 105, 110, 110, 111, 32,
      74, 76, 45, 51, 48, 48, 32, 109, 97, 99, 104, 105, 110, 101, 44, 32, 97, 32, 98, 114, 97,
      110, 100, 101, 100, 32, 115, 116, 97, 110, 100, 44, 32, 97, 32, 99, 111, 110, 116, 114,
      111, 108, 32, 115, 121, 115, 116, 101, 109, 44, 32, 97, 110, 100, 32, 97, 32, 115, 116,
      97, 114, 116, 101, 114, 32, 115, 101, 116, 32, 111, 102, 32, 105, 110, 103, 114, 101, 100,
      105, 101, 110, 116, 115, 44, 32, 112, 108, 117, 115, 32, 116, 114, 97, 105, 110, 105, 110,
      103, 32, 97, 110, 100, 32, 108, 97, 117, 110, 99, 104, 32, 115, 117, 112, 112, 111, 114,
      116, 46, 32, 73, 116, 8217, 115, 32, 100, 101, 115, 105, 103, 110, 101, 100, 32, 102, 111,
      114, 32, 97, 32, 102, 97, 115, 116, 32, 115, 116, 97, 114, 116, 32, 119, 105, 116, 104,
      111, 117, 116, 32, 112, 114, 105, 111, 114, 32, 99, 111, 102, 102, 101, 101, 45, 98, 117,
      115, 105, 110, 101, 115, 115, 32, 101, 120, 112, 101, 114, 105, 101, 110, 99, 101, 32, 97,
      110, 100, 32, 119, 111, 114, 107, 115, 32, 119, 105, 116, 104, 111, 117, 116, 32, 115,
      116, 97, 102, 102, 46, 32, 78, 101, 120, 116, 44, 32, 105, 116, 32, 109, 97, 107, 101,
      115, 32, 115, 101, 110, 115, 101, 32, 116, 111, 32, 100, 105, 115, 99, 117, 115, 115, 32,
      101, 105, 116, 104, 101, 114, 32, 116, 104, 101, 32, 111, 112, 101, 110, 105, 110, 103,
      32, 99, 111, 115, 116, 32, 111, 114, 32, 112, 97, 121, 98, 97, 99, 107, 32, 97, 110, 100,
      32, 114, 101, 97, 108, 32, 110, 117, 109, 98, 101, 114, 115, 46>>,
    price |->
      <<84, 104, 97, 116, 8217, 115, 32, 97, 32, 103, 111, 111, 100, 32, 113, 117, 101, 115,
      116, 105, 111, 110, 32, 8212, 32, 108, 101, 116, 8217, 115, 32, 98, 114, 101, 97, 107, 32,
      105, 116, 32, 100, 111, 119, 110, 32, 99, 108, 101, 97, 114, 108, 121, 46, 32, 84, 104,
      101, 32, 98, 97, 115, 101, 32, 108, 97, 117, 110, 99, 104, 32, 99, 111, 115, 116, 32, 102,
      111, 114, 32, 97, 32, 77, 97, 105, 115, 111, 110, 32, 100, 101, 32, 67, 97, 102, 233, 32,
      112, 111, 105, 110, 116, 32, 105, 110, 32, 66, 101, 108, 103, 105, 117, 109, 32, 105, 115,
      32, 57, 32, 56, 48, 48, 32, 8364, 46, 32, 73, 116, 32, 105, 110, 99, 108, 117, 100, 101,
      115, 32, 116, 104, 101, 32, 74, 101, 116, 105, 110, 110, 111, 32, 74, 76, 45, 51, 48, 48,
      44, 32, 98, 114, 97, 110, 100, 101, 100, 32, 115, 116, 97, 110, 100, 44, 32, 116, 101,
      108, 101, 109, 101, 116, 114, 121, 44, 32, 115, 116, 97, 114, 116, 101, 114, 32, 105, 110,
      103, 114, 101, 100, 105, 101, 110, 116, 115, 44, 32, 116, 114, 97, 105, 110, 105, 110,
      103, 44, 32, 97, 110, 100, 32, 102, 117, 108, 108, 32, 108, 97, 117, 110, 99, 104, 32,
      115, 117, 112, 112, 111, 114, 116, 46, 32, 84, 104, 105, 115, 32, 105, 115, 32, 110, 111,
      116, 32, 97, 32, 99, 108, 97, 115, 115, 105, 99, 32, 102, 114, 97, 110, 99, 104, 105, 115,
      101, 32, 119, 105, 116, 104, 32, 112, 97, 99, 107, 97, 103, 101, 115, 32, 111, 114, 32,
      104, 105, 100, 100, 101, 110, 32, 102, 101, 101, 115, 32, 8212, 32, 121, 111, 117, 32,
      112, 97, 121, 32, 102, 111, 114, 32, 115, 112, 101, 99, 105, 102, 105, 99, 32, 101, 113,
      117, 105, 112, 109, 101, 110, 116, 32, 97, 110, 100, 32, 115, 101, 114, 118, 105, 99, 101,
      46, 32, 83, 101, 112, 97, 114, 97, 116, 101, 32, 99, 111, 115, 116, 115, 32, 117, 115,
      117, 97, 108, 108, 121, 32, 100, 101, 112, 101, 110, 100, 32, 111, 110, 108, 121, 32, 111,
      110, 32, 121, 111, 117, 114, 32, 115, 105, 116, 117, 97, 116, 105, 111, 110, 44, 32, 115,
      117, 99, 104, 32, 97, 115, 32, 114, 101, 110, 116, 32, 111, 114, 32, 101, 108, 101, 99,
      116, 114, 105, 99, 105, 116, 121, 46, 32, 78, 101, 120, 116, 44, 32, 119, 101, 32, 99, 97,
      110, 32, 108, 111, 111, 107, 32, 97, 116, 32, 112, 97, 121, 98, 97, 99, 107, 32, 111, 114,
      32, 100, 105, 115, 99, 117, 115, 115, 32, 121, 111, 117, 114, 32, 102, 117, 116, 117, 114,
      101, 32, 108, 111, 99, 97, 116, 105, 111, 110, 46>>,
    payback |->
      <<84, 104, 97, 116, 8217, 115, 32, 97, 32, 103, 111, 111, 100, 32, 113, 117, 101, 115,
      116, 105, 111, 110, 32, 8212, 32, 108, 101, 116, 8217, 115, 32, 98, 114, 101, 97, 107, 32,
      105, 116, 32, 100, 111, 119, 110, 32, 99, 108, 101, 97, 114, 108, 121, 46, 32, 73, 110,
      32, 116, 104, 101, 32, 98, 97, 115, 101, 32, 109, 111, 100, 101, 108, 44, 32, 116, 104,
      101, 32, 97, 118, 101, 114, 97, 103, 101, 32, 109, 97, 114, 103, 105, 110, 32, 112, 101,
      114, 32, 99, 117, 112, 32, 105, 115, 32, 97, 98, 111, 117, 116, 32, 49, 46, 56, 32, 8364,
      44, 32, 97, 110, 100, 32, 97, 32, 116, 121, 112, 105, 99, 97, 108, 32, 118, 111, 108, 117,
      109, 101, 32, 105, 115, 32, 97, 114, 111, 117, 110, 100, 32, 51, 53, 32, 99, 117, 112,
      115, 47, 100, 97, 121, 46, 32, 84, 104, 97, 116, 8217, 115, 32, 114, 111, 117, 103, 104,
      108, 121, 32, 49, 32, 57, 48, 48, 32, 8364, 32, 103, 114, 111, 115, 115, 32, 109, 97, 114,
      103, 105, 110, 32, 112, 101, 114, 32, 109, 111, 110, 116, 104, 44, 32, 97, 110, 100, 32,
      97, 102, 116, 101, 114, 32, 115, 116, 97, 110, 100, 97, 114, 100, 32, 99, 111, 115, 116,
      115, 32, 105, 116, 32, 111, 102, 116, 101, 110, 32, 108, 101, 97, 118, 101, 115, 32, 97,
      114, 111, 117, 110, 100, 32, 49, 32, 50, 48, 48, 8211, 49, 32, 51, 48, 48, 32, 8364, 32,
      110, 101, 116, 46, 32, 65, 118, 101, 114, 97, 103, 101, 32, 112, 97, 121, 98, 97, 99, 107,
      32, 105, 115, 32, 97, 98, 111, 117, 116, 32, 57, 8211, 49, 50, 32, 109, 111, 110, 116,
      104, 115, 44, 32, 98, 117, 116, 32, 116, 104, 101, 32, 114, 101, 97, 108, 32, 114, 101,
      115, 117, 108, 116, 32, 97, 108, 119, 97, 121, 115, 32, 100, 101, 112, 101, 110, 100, 115,
      32, 111, 110, 32, 108, 111, 99, 97, 116, 105, 111, 110, 32, 116, 114, 97, 102, 102, 105,
      99, 46, 32, 87, 101, 32, 99, 97, 110, 32, 97, 115, 115, 101, 115, 115, 32, 97, 32, 115,
      112, 101, 99, 105, 102, 105, 99, 32, 108, 111, 99, 97, 116, 105, 111, 110, 32, 111, 114,
      32, 109, 111, 118, 101, 32, 116, 111, 32, 112, 97, 114, 116, 110, 101, 114, 115, 104, 105,
      112, 32, 116, 101, 114, 109, 115, 46>>,
    terms |->
      <<84, 104, 97, 116, 8217, 115, 32, 97, 32, 103, 111, 111, 100, 32, 113, 117, 101, 115,
      116, 105, 111, 110, 32, 8212, 32, 108, 101, 116, 8217, 115, 32, 98, 114, 101, 97, 107, 32,
      105, 116, 32, 100, 111, 119, 110, 32, 99, 108, 101, 97, 114, 108, 121, 46, 32, 77, 97,
      105, 115, 111, 110, 32, 100, 101, 32, 67, 97, 102, 233, 32, 105, 115, 32, 110, 111, 116,
      32, 97, 32, 99, 108, 97, 115, 115, 105, 99, 32, 102, 114, 97, 110, 99, 104, 105, 115, 101,
      32, 119, 105, 116, 104, 32, 101, 110, 116, 114, 121, 32, 102, 101, 101, 115, 32, 97, 110,
      100, 32, 114, 105, 103, 105, 100, 32, 114, 117, 108, 101, 115, 46, 32, 73, 116, 8217, 115,
      32, 97, 32, 112, 97, 114, 116, 110, 101, 114, 115, 104, 105, 112, 32, 109, 111, 100, 101,
      108, 58, 32, 121, 111, 117, 32, 105, 110, 118, 101, 115, 116, 32, 105, 110, 32, 116, 104,
      101, 32, 101, 113, 117, 105, 112, 109, 101, 110, 116, 32, 97, 110, 100, 32, 109, 97, 110,
      97, 103, 101, 32, 116, 104, 101, 32, 112, 111, 105, 110, 116, 44, 32, 97, 110, 100, 32,
      119, 101, 32, 112, 114, 111, 118, 105, 100, 101, 32, 112, 114, 111, 100, 117, 99, 116, 44,
      32, 113, 117, 97, 108, 105, 116, 121, 32, 115, 116, 97, 110, 100, 97, 114, 100, 115, 44,
      32, 116, 114, 97, 105, 110, 105, 110, 103, 44, 32, 97, 110, 100, 32, 108, 97, 117, 110,
      99, 104, 32, 115, 117, 112, 112, 111, 114, 116, 46, 32, 89, 111, 117, 32, 107, 101, 101,
      112, 32, 102, 108, 101, 120, 105, 98, 105, 108, 105, 116, 121, 32, 105, 110, 32, 99, 104,
      111, 111, 115, 105, 110, 103, 32, 116, 104, 101, 32, 108, 111, 99, 97, 116, 105, 111, 110,
      32, 97, 110, 100, 32, 114, 117, 110, 110, 105, 110, 103, 32, 116, 104, 101, 32, 98, 117,
      115, 105, 110, 101, 115, 115, 46, 32, 87, 101, 32, 99, 97, 110, 32, 100, 105, 115, 99,
      117, 115, 115, 32, 121, 111, 117, 114, 32, 105, 100, 101, 97, 32, 111, 114, 32, 109, 111,
      118, 101, 32, 116, 111, 32, 116, 104, 101, 32, 110, 101, 120, 116, 32, 115, 116, 101, 112,
      46>>,
    contacts |->
      <<84, 104, 97, 116, 8217, 115, 32, 97, 32, 103, 111, 111, 100, 32, 113, 117, 101, 115,
      116, 105, 111, 110, 32, 8212, 32, 108, 101, 116, 8217, 115, 32, 98, 114, 101, 97, 107, 32,
      105, 116, 32, 100, 111, 119, 110, 32, 99, 108, 101, 97, 114, 108, 121, 46, 32, 73, 102,
      32, 121, 111, 117, 32, 114, 101, 97, 99, 104, 101, 100, 32, 116, 104, 105, 115, 32, 112,
      111, 105, 110, 116, 44, 32, 116, 104, 101, 32, 102, 111, 114, 109, 97, 116, 32, 105, 115,
      32, 103, 101, 110, 117, 105, 110, 101, 108, 121, 32, 105, 110, 116, 101, 114, 101, 115,
      116, 105, 110, 103, 32, 102, 111, 114, 32, 121, 111, 117, 46, 32, 84, 104, 101, 32, 109,
      111, 115, 116, 32, 117, 115, 101, 102, 117, 108, 32, 110, 101, 120, 116, 32, 115, 116,
      101, 112, 32, 105, 115, 32, 97, 32, 115, 104, 111, 114, 116, 32, 116, 97, 108, 107, 32,
      97, 98, 111, 117, 116, 32, 121, 111, 117, 114, 32, 115, 105, 116, 117, 97, 116, 105, 111,
      110, 58, 32, 108, 111, 99, 97, 116, 105, 111, 110, 44, 32, 98, 117, 100, 103, 101, 116,
      44, 32, 97, 110, 100, 32, 101, 120, 112, 101, 99, 116, 97, 116, 105, 111, 110, 115, 46,
      32, 84, 104, 97, 116, 8217, 115, 32, 104, 111, 119, 32, 119, 101, 32, 99, 111, 110, 102,
      105, 114, 109, 32, 102, 105, 116, 32, 119, 105, 116, 104, 111, 117, 116, 32, 116, 104,
      101, 111, 114, 121, 32, 111, 114, 32, 101, 109, 112, 116, 121, 32, 112, 114, 111, 109,
      105, 115, 101, 115, 46, 32, 87, 101, 32, 99, 97, 110, 32, 101, 105, 116, 104, 101, 114,
      32, 115, 117, 98, 109, 105, 116, 32, 97, 32, 114, 101, 113, 117, 101, 115, 116, 32, 97,
      110, 100, 32, 103, 111, 32, 112, 101, 114, 115, 111, 110, 97, 108, 44, 32, 111, 114, 32,
      114, 101, 116, 117, 114, 110, 32, 116, 111, 32, 116, 104, 101, 32, 110, 117, 109, 98, 101,
      114, 115, 32, 97, 110, 100, 32, 99, 97, 108, 109, 108, 121, 32, 114, 101, 118, 105, 101,
      119, 32, 112, 97, 121, 98, 97, 99, 107, 32, 97, 103, 97, 105, 110, 46>> ],
  FR |-> [
    what |->
      <<67, 8217, 101, 115, 116, 32, 117, 110, 101, 32, 98, 111, 110, 110, 101, 32, 113, 117,
      101, 115, 116, 105, 111, 110, 32, 8212, 32, 99, 8217, 101, 115, 116, 32, 115, 111, 117,
      118, 101, 110, 116, 32, 99, 111, 109, 109, 101, 32, 231, 97, 32, 113, 117, 101, 32, 108,
      97, 32, 100, 105, 115, 99, 117, 115, 115, 105, 111, 110, 32, 99, 111, 109, 109, 101, 110,
      99, 101, 46, 32, 77, 97, 105, 115, 111, 110, 32, 100, 101, 32, 67, 97, 102, 233, 32, 101,
      115, 116, 32, 117, 110, 32, 112, 111, 105, 110, 116, 32, 99, 97, 102, 233, 32, 101, 110,
      32, 108, 105, 98, 114, 101, 45, 115, 101, 114, 118, 105, 99, 101, 32, 171, 32, 99, 108,
      233, 32, 101, 110, 32, 109, 97, 105, 110, 32, 187, 32, 101, 110, 32, 66, 101, 108, 103,
      105, 113, 117, 101, 46, 32, 86, 111, 117, 115, 32, 114, 101, 99, 101, 118, 101, 122, 32,
      117, 110, 101, 32, 109, 97, 99, 104, 105, 110, 101, 32, 74, 101, 116, 105, 110, 110, 111,
      32, 74, 76, 45, 51, 48, 48, 44, 32, 117, 110, 32, 115, 116, 97, 110, 100, 32, 100, 101,
      32, 109, 97, 114, 113, 117, 101, 44, 32, 117, 110, 32, 115, 121, 115, 116, 232, 109, 101,
      32, 100, 101, 32, 99, 111, 110, 116, 114, 244, 108, 101, 32, 101, 116, 32, 117, 110, 32,
      107, 105, 116, 32, 100, 101, 32, 100, 233, 109, 97, 114, 114, 97, 103, 101, 32, 100, 8217,
      105, 110, 103, 114, 233, 100, 105, 101, 110, 116, 115, 44, 32, 97, 105, 110, 115, 105, 32,
      113, 117, 101, 32, 108, 97, 32, 102, 111, 114, 109, 97, 116, 105, 111, 110, 32, 101, 116,
      32, 108, 8217, 97, 99, 99, 111, 109, 112, 97, 103, 110, 101, 109, 101, 110, 116, 32, 97,
      117, 32, 108, 97, 110, 99, 101, 109, 101, 110, 116, 46, 32, 76, 101, 32, 102, 111, 114,
      109, 97, 116, 32, 101, 115, 116, 32, 112, 101, 110, 115, 233, 32, 112, 111, 117, 114, 32,
      100, 233, 109, 97, 114, 114, 101, 114, 32, 118, 105, 116, 101, 44, 32, 115, 97, 110, 115,
      32, 101, 120, 112, 233, 114, 105, 101, 110, 99, 101, 44, 32, 101, 116, 32, 102, 111, 110,
      99, 116, 105, 111, 110, 110, 101, 114, 32, 115, 97, 110, 115, 32, 112, 101, 114, 115, 111,
      110, 110, 101, 108, 46, 32, 69, 110, 115, 117, 105, 116, 101, 44, 32, 105, 108, 32, 101,
      115, 116, 32, 108, 111, 103, 105, 113, 117, 101, 32, 100, 101, 32, 112, 97, 114, 108, 101,
      114, 32, 115, 111, 105, 116, 32, 100, 117, 32, 99, 111, 251, 116, 32, 100, 101, 32, 108,
      97, 110, 99, 101, 109, 101, 110, 116, 44, 32, 115, 111, 105, 116, 32, 100, 101, 32, 108,
      97, 32, 114, 101, 110, 116, 97, 98, 105, 108, 105, 116, 233, 32, 101, 116, 32, 100, 101,
      115, 32, 99, 104, 105, 102, 102, 114, 101, 115, 46>>,
    price |->
      <<67, 8217, 101, 115, 116, 32, 117, 110, 101, 32, 98, 111, 110, 110, 101, 32, 113, 117,
      101, 115, 116, 105, 111, 110, 32, 8212, 32, 114, 101, 103, 97, 114, 100, 111, 110, 115,
      45, 108, 97, 32, 99, 108, 97, 105, 114, 101, 109, 101, 110, 116, 46, 32, 76, 101, 32, 99,
      111, 251, 116, 32, 100, 101, 32, 98, 97, 115, 101, 32, 112, 111, 117, 114, 32, 108, 97,
      110, 99, 101, 114, 32, 117, 110, 32, 112, 111, 105, 110, 116, 32, 77, 97, 105, 115, 111,
      110, 32, 100, 101, 32, 67, 97, 102, 233, 32, 101, 110, 32, 66, 101, 108, 103, 105, 113,
      117, 101, 32, 101, 115, 116, 32, 100, 101, 32, 57, 32, 56, 48, 48, 32, 8364, 46, 32, 67,
      101, 108, 97, 32, 105, 110, 99, 108, 117, 116, 32, 108, 97, 32, 74, 101, 116, 105, 110,
      110, 111, 32, 74, 76, 45, 51, 48, 48, 44, 32, 108, 101, 32, 115, 116, 97, 110, 100, 44,
      32, 108, 97, 32, 116, 233, 108, 233, 109, 233, 116, 114, 105, 101, 44, 32, 108, 101, 32,
      107, 105, 116, 32, 100, 8217, 105, 110, 103, 114, 233, 100, 105, 101, 110, 116, 115, 44,
      32, 108, 97, 32, 102, 111, 114, 109, 97, 116, 105, 111, 110, 32, 101, 116, 32, 108, 101,
      32, 108, 97, 110, 99, 101, 109, 101, 110, 116, 46, 32, 67, 101, 32, 110, 8217, 101, 115,
      116, 32, 112, 97, 115, 32, 117, 110, 101, 32, 102, 114, 97, 110, 99, 104, 105, 115, 101,
      32, 99, 108, 97, 115, 115, 105, 113, 117, 101, 32, 97, 118, 101, 99, 32, 112, 97, 99, 107,
      115, 32, 101, 116, 32, 102, 114, 97, 105, 115, 32, 99, 97, 99, 104, 233, 115, 32, 8212,
      32, 118, 111, 117, 115, 32, 112, 97, 121, 101, 122, 32, 112, 111, 117, 114, 32, 117, 110,
      32, 233, 113, 117, 105, 112, 101, 109, 101, 110, 116, 32, 101, 116, 32, 117, 110, 32, 115,
      101, 114, 118, 105, 99, 101, 32, 112, 114, 233, 99, 105, 115, 46, 32, 76, 101, 115, 32,
      99, 111, 251, 116, 115, 32, 115, 233, 112, 97, 114, 233, 115, 32, 100, 233, 112, 101, 110,
      100, 101, 110, 116, 32, 103, 233, 110, 233, 114, 97, 108, 101, 109, 101, 110, 116, 32,
      100, 101, 32, 118, 111, 116, 114, 101, 32, 115, 105, 116, 117, 97, 116, 105, 111, 110, 32,
      40, 108, 111, 121, 101, 114, 44, 32, 233, 108, 101, 99, 116, 114, 105, 99, 105, 116, 233,
      41, 46, 32, 69, 110, 115, 117, 105, 116, 101, 44, 32, 111, 110, 32, 112, 101, 117, 116,
      32, 114, 101, 103, 97, 114, 100, 101, 114, 32, 108, 97, 32, 114, 101, 110, 116, 97, 98,
      105, 108, 105, 116, 233, 32, 111, 117, 32, 100, 105, 115, 99, 117, 116, 101, 114, 32, 100,
      101, 32, 118, 111, 116, 114, 101, 32, 102, 117, 116, 117, 114, 32, 101, 109, 112, 108, 97,
      99, 101, 109, 101, 110, 116, 46>>,
    payback |->
      <<67, 8217, 101, 115, 116, 32, 117, 110, 101, 32, 98, 111, 110, 110, 101, 32, 113, 117,
      101, 115, 116, 105, 111, 110, 32, 8212, 32, 114, 101, 103, 97, 114, 100, 111, 110, 115,
      45, 108, 97, 32, 99, 108, 97, 105, 114, 101, 109, 101, 110, 116, 46, 32, 68, 97, 110, 115,
      32, 108, 101, 32, 109, 111, 100, 232, 108, 101, 32, 100, 101, 32, 98, 97, 115, 101, 44,
      32, 108, 97, 32, 109, 97, 114, 103, 101, 32, 109, 111, 121, 101, 110, 110, 101, 32, 112,
      97, 114, 32, 116, 97, 115, 115, 101, 32, 101, 115, 116, 32, 100, 8217, 101, 110, 118, 105,
      114, 111, 110, 32, 49, 44, 56, 32, 8364, 44, 32, 97, 118, 101, 99, 32, 117, 110, 32, 118,
      111, 108, 117, 109, 101, 32, 1090, 1080, 1087, 105, 113, 117, 101, 32, 100, 8217, 101,
      110, 118, 105, 114, 111, 110, 32, 51, 53, 32, 116, 97, 115, 115, 101, 115, 47, 106, 111,
      117, 114, 46, 32, 67, 101, 108, 97, 32, 100, 111, 110, 110, 101, 32, 101, 110, 118, 105,
      114, 111, 110, 32, 49, 32, 57, 48, 48, 32, 8364, 32, 100, 101, 32, 109, 97, 114, 103, 101,
      32, 98, 114, 117, 116, 101, 32, 112, 97, 114, 32, 109, 111, 105, 115, 44, 32, 101, 116,
      32, 97, 112, 114, 232, 115, 32, 108, 101, 115, 32, 99, 111, 251, 116, 115, 32, 115, 116,
      97, 110, 100, 97, 114, 100, 115, 32, 105, 108, 32, 114, 101, 115, 116, 101, 32, 115, 111,
      117, 118, 101, 110, 116, 32, 97, 117, 116, 111, 117, 114, 32, 100, 101, 32, 49, 32, 50,
      48, 48, 8211, 49, 32, 51, 48, 48, 32, 8364, 32, 110, 101, 116, 46, 32, 76, 101, 32, 114,
      101, 116, 111, 117, 114, 32, 115, 117, 114, 32, 105, 110, 118, 101, 115, 116, 105, 115,
      115, 101, 109, 101, 110, 116, 32, 101, 115, 116, 32, 101, 110, 32, 109, 111, 121, 101,
      110, 110, 101, 32, 100, 101, 32, 57, 8211, 49, 50, 32, 109, 111, 105, 115, 44, 32, 109,
      97, 105, 115, 32, 108, 101, 32, 114, 233, 115, 117, 108, 116, 97, 116, 32, 100, 233, 112,
      101, 110, 100, 32, 100, 117, 32, 102, 108, 117, 120, 32, 100, 101, 32, 108, 8217, 101,
      109, 112, 108, 97, 99, 101, 109, 101, 110, 116, 46, 32, 79, 110, 32, 112, 101, 117, 116,
      32, 97, 110, 97, 108, 121, 115, 101, 114, 32, 117, 110, 32, 108, 105, 101, 117, 32, 112,
      114, 233, 99, 105, 115, 32, 111, 117, 32, 112, 97, 115, 115, 101, 114, 32, 97, 117, 120,
      32, 99, 111, 110, 100, 105, 116, 105, 111, 110, 115, 32, 100, 101, 32, 112, 97, 114, 116,
      101, 110, 97, 114, 105, 97, 116, 46>>,
    terms |->
      <<67, 8217, 101, 115, 116, 32, 117, 110, 101, 32, 98, 111, 110, 110, 101, 32, 113, 117,
      101, 115, 116, 105, 111, 110, 32, 8212, 32, 114, 101, 103, 97, 114, 100, 111, 110, 115,
      45, 108, 97, 32, 99, 108, 97, 105, 114, 101, 109, 101, 110, 116, 46, 32, 77, 97, 105, 115,
      111, 110, 32, 100, 101, 32, 67, 97, 102, 233, 32, 110, 8217, 101, 115, 116, 32, 112, 97,
      115, 32, 117, 110, 101, 32, 102, 114, 97, 110, 99, 104, 105, 115, 101, 32, 99, 108, 97,
      115, 115, 105, 113, 117, 101, 32, 97, 118, 101, 99, 32, 100, 114, 111, 105, 116, 115, 32,
      100, 8217, 101, 110, 116, 114, 233, 101, 32, 101, 116, 32, 114, 232, 103, 108, 101, 115,
      32, 114, 105, 103, 105, 100, 101, 115, 46, 32, 67, 8217, 101, 115, 116, 32, 117, 110, 32,
      109, 111, 100, 232, 108, 101, 32, 112, 97, 114, 116, 101, 110, 97, 105, 114, 101, 32, 58,
      32, 118, 111, 117, 115, 32, 105, 110, 118, 101, 115, 116, 105, 115, 115, 101, 122, 32,
      100, 97, 110, 115, 32, 108, 8217, 233, 113, 117, 105, 112, 101, 109, 101, 110, 116, 32,
      101, 116, 32, 103, 233, 114, 101, 122, 32, 108, 101, 32, 112, 111, 105, 110, 116, 44, 32,
      101, 116, 32, 110, 111, 117, 115, 32, 102, 111, 117, 114, 110, 105, 115, 115, 111, 110,
      115, 32, 108, 101, 32, 112, 114, 111, 100, 117, 105, 116, 44, 32, 108, 101, 115, 32, 115,
      116, 97, 110, 100, 97, 114, 100, 115, 32, 113, 117, 97, 108, 105, 116, 233, 44, 32, 108,
      97, 32, 102, 111, 114, 109, 97, 116, 105, 111, 110, 32, 101, 116, 32, 108, 8217, 97, 99,
      99, 111, 109, 112, 97, 103, 110, 101, 109, 101, 110, 116, 46, 32, 86, 111, 117, 115, 32,
      103, 97, 114, 100, 101, 122, 32, 100, 101, 32, 108, 97, 32, 102, 108, 101, 120, 105, 98,
      105, 108, 105, 116, 233, 32, 115, 117, 114, 32, 108, 8217, 101, 109, 112, 108, 97, 99,
      101, 109, 101, 110, 116, 32, 101, 116, 32, 108, 97, 32, 103, 101, 115, 116, 105, 111, 110,
      46, 32, 79, 110, 32, 112, 101, 117, 116, 32, 100, 105, 115, 99, 117, 116, 101, 114, 32,
      100, 101, 32, 118, 111, 116, 114, 101, 32, 105, 100, 233, 101, 32, 111, 117, 32, 112, 97,
      115, 115, 101, 114, 32, 224, 32, 108, 97, 32, 112, 114, 111, 99, 104, 97, 105, 110, 101,
      32, 233, 116, 97, 112, 101, 46>>,
    contacts |->
      <<67, 8217, 101, 115, 116, 32, 117, 110, 101, 32, 98, 111, 110, 110, 101, 32, 113, 117,
      101, 115, 116, 105, 111, 110, 32, 8212, 32, 114, 101, 103, 97, 114, 100, 111, 110, 115,
      45, 108, 97, 32, 99, 108, 97, 105, 114, 101, 109, 101, 110, 116, 46, 32, 83, 105, 32, 118,
      111, 117, 115, 32, 234, 116, 101, 115, 32, 97, 114, 114, 105, 118, 233, 32, 224, 32, 99,
      101, 32, 115, 116, 97, 100, 101, 44, 32, 99, 8217, 101, 115, 116, 32, 113, 117, 101, 32,
      108, 101, 32, 102, 111, 114, 109, 97, 116, 32, 118, 111, 117, 115, 32, 105, 110, 116, 233,
      114, 101, 115, 115, 101, 32, 114, 233, 101, 108, 108, 101, 109, 101, 110, 116, 46, 32, 76,
      97, 32, 112, 114, 111, 99, 104, 97, 105, 110, 101, 32, 233, 116, 97, 112, 101, 32, 108,
      97, 32, 112, 108, 117, 115, 32, 117, 116, 105, 108, 101, 32, 101, 115, 116, 32, 100, 8217,
      233, 99, 104, 97, 110, 103, 101, 114, 32, 98, 114, 105, 232, 118, 101, 109, 101, 110, 116,
      32, 115, 117, 114, 32, 118, 111, 116, 114, 101, 32, 115, 105, 116, 117, 97, 116, 105, 111,
      110, 32, 58, 32, 101, 109, 112, 108, 97, 99, 101, 109, 101, 110, 116, 44, 32, 98, 117,
      100, 103, 101, 116, 32, 101, 116, 32, 97, 116, 116, 101, 110, 116, 101, 115, 46, 32, 67,
      8217, 101, 115, 116, 32, 99, 111, 109, 109, 101, 32, 231, 97, 32, 113, 117, 8217, 111,
      110, 32, 118, 97, 108, 105, 100, 101, 32, 108, 8217, 97, 100, 233, 113, 117, 97, 116, 105,
      111, 110, 32, 115, 97, 110, 115, 32, 116, 104, 233, 111, 114, 105, 101, 32, 110, 105, 32,
      112, 114, 111, 109, 101, 115, 115, 101, 115, 32, 105, 110, 117, 116, 105, 108, 101, 115,
      46, 32, 79, 110, 32, 112, 101, 117, 116, 32, 115, 111, 105, 116, 32, 108, 97, 105, 115,
      115, 101, 114, 32, 117, 110, 101, 32, 100, 101, 109, 97, 110, 100, 101, 44, 32, 115, 111,
      105, 116, 32, 114, 101, 118, 101, 110, 105, 114, 32, 97, 117, 120, 32, 99, 104, 105, 102,
      102, 114, 101, 115, 32, 101, 116, 32, 114, 101, 118, 111, 105, 114, 32, 108, 97, 32, 114,
      101, 110, 116, 97, 98, 105, 108, 105, 116, 233, 32, 99, 97, 108, 109, 101, 109, 101, 110,
      116, 46>> ] ]

\* src/bot.py:832-837
START_MSG == [
  UA |->
    <<1055, 1088, 1080, 1074, 1110, 1090, 33, 32, 1071, 32, 77, 97, 120, 44, 32, 1082, 1086,
    1085, 1089, 1091, 1083, 1100, 1090, 1072, 1085, 1090, 32, 77, 97, 105, 115, 111, 110, 32,
    100, 101, 32, 67, 97, 102, 233, 46, 32, 1054, 1073, 1077, 1088, 1110, 1090, 1100, 32, 1087,
    1091, 1085, 1082, 1090, 32, 1084, 1077, 1085, 1102, 32, 1072, 1073, 1086, 32, 1085, 1072,
    1087, 1080, 1096, 1110, 1090, 1100, 32, 1087, 1080, 1090, 1072, 1085, 1085, 1103, 46>>,
  RU |->
    <<1055, 1088, 1080, 1074, 1077, 1090, 33, 32, 1071, 32, 77, 97, 120, 44, 32, 1082, 1086,
    1085, 1089, 1091, 1083, 1100, 1090, 1072, 1085, 1090, 32, 77, 97, 105, 115, 111, 110, 32,
    100, 101, 32, 67, 97, 102, 233, 46, 32, 1042, 1099, 1073, 1077, 1088, 1080, 1090, 1077, 32,
    1087, 1091, 1085, 1082, 1090, 32, 1084, 1077, 1085, 1102, 32, 1080, 1083, 1080, 32, 1085,
    1072, 1087, 1080, 1096, 1080, 1090, 1077, 32, 1074, 1086, 1087, 1088, 1086, 1089, 46>>,
  EN |->
    <<72, 105, 33, 32, 73, 8217, 109, 32, 77, 97, 120, 44, 32, 77, 97, 105, 115, 111, 110, 32,
    100, 101, 32, 67, 97, 102, 233, 32, 99, 111, 110, 115, 117, 108, 116, 97, 110, 116, 46, 32,
    67, 104, 111, 111, 115, 101, 32, 97, 32, 109, 101, 110, 117, 32, 105, 116, 101, 109, 32,
    111, 114, 32, 116, 121, 112, 101, 32, 121, 111, 117, 114, 32, 113, 117, 101, 115, 116, 105,
    111, 110, 46>>,
  FR |->
    <<66, 111, 110, 106, 111, 117, 114, 32, 33, 32, 74, 101, 32, 115, 117, 105, 115, 32, 77, 97,
    120, 44, 32, 99, 111, 110, 115, 117, 108, 116, 97, 110, 116, 32, 77, 97, 105, 115, 111, 110,
    32, 100, 101, 32, 67, 97, 102, 233, 46, 32, 67, 104, 111, 105, 115, 105, 115, 115, 101, 122,
    32, 117, 110, 32, 1087, 1091, 1085, 1082, 1090, 32, 100, 117, 32, 109, 101, 110, 117, 32,
    111, 117, 32, 233, 99, 114, 105, 118, 101, 122, 32, 118, 111, 116, 114, 101, 32, 113, 117,
    101, 115, 116, 105, 111, 110, 46>> ]

\* src/bot.py:870-870
LANG_CONFIRM == [
  UA |->
    <<1052, 1086, 1074, 1091, 32, 1079, 1084, 1110, 1085, 1077, 1085, 1086, 46>>,
  RU |->
    <<1071, 1079, 1099, 1082, 32, 1080, 1079, 1084, 1077, 1085, 1105, 1085, 46>>,
  EN |->
    <<76, 97, 110, 103, 117, 97, 103, 101, 32, 117, 112, 100, 97, 116, 101, 100, 46>>,
  FR |->
    <<76, 97, 110, 103, 117, 101, 32, 109, 105, 115, 101, 32, 224, 32, 106, 111, 117, 114, 46>> ]

\* src/bot.py:902-905
VOICE_FAIL_MSG == [
  UA |->
    <<1053, 1077, 32, 1079, 1084, 1110, 1075, 32, 1088, 1086, 1079, 1087, 1110, 1079, 1085,
    1072, 1090, 1080, 32, 1075, 1086, 1083, 1086, 1089, 1086, 1074, 1077, 46, 32, 1057, 1087,
    1088, 1086, 1073, 1091, 1081, 1090, 1077, 32, 1097, 1077, 32, 1088, 1072, 1079, 32, 1072,
    1073, 1086, 32, 1085, 1072, 1087, 1080, 1096, 1110, 1090, 1100, 32, 1090, 1077, 1082, 1089,
    1090, 1086, 1084, 46>>,
  RU |->
    <<1053, 1077, 32, 1089, 1084, 1086, 1075, 32, 1088, 1072, 1089, 1087, 1086, 1079, 1085,
    1072, 1090, 1100, 32, 1075, 1086, 1083, 1086, 1089, 1086, 1074, 1086, 1077, 46, 32, 1055,
    1086, 1087, 1088, 1086, 1073, 1091, 1081, 1090, 1077, 32, 1077, 1097, 1105, 32, 1088, 1072,
    1079, 32, 1080, 1083, 1080, 32, 1085, 1072, 1087, 1080, 1096, 1080, 1090, 1077, 32, 1090,
    1077, 1082, 1089, 1090, 1086, 1084, 46>>,
  EN |->
    <<73, 32, 99, 111, 117, 108, 100, 110, 8217, 116, 32, 116, 114, 97, 110, 115, 99, 114, 105,
    98, 101, 32, 116, 104, 101, 32, 118, 111, 105, 99, 101, 32, 109, 101, 115, 115, 97, 103,
    101, 46, 32, 80, 108, 101, 97, 115, 101, 32, 116, 114, 121, 32, 97, 103, 97, 105, 110, 32,
    111, 114, 32, 116, 121, 112, 101, 32, 121, 111, 117, 114, 32, 113, 117, 101, 115, 116, 105,
    111, 110, 46>>,
  FR |->
    <<74, 101, 32, 110, 8217, 97, 105, 32, 112, 97, 115, 32, 112, 117, 32, 116, 114, 97, 110,
    115, 99, 114, 105, 114, 101, 32, 108, 101, 32, 109, 101, 115, 115, 97, 103, 101, 32, 118,
    111, 99, 97, 108, 46, 32, 82, 233, 101, 115, 115, 97, 121, 101, 122, 32, 111, 117, 32, 233,
    99, 114, 105, 118, 101, 122, 32, 118, 111, 116, 114, 101, 32, 113, 117, 101, 115, 116, 105,
    111, 110, 46>> ]

\* src/bot.py:926-926
LANG_PROMPT == [
  UA |->
    <<1054, 1073, 1077, 1088, 1110, 1090, 1100, 32, 1084, 1086, 1074, 1091, 58>>,
  RU |->
    <<1042, 1099, 1073, 1077, 1088, 1080, 1090, 1077, 32, 1103, 1079, 1099, 1082, 58>>,
  EN |->
    <<67, 104, 111, 111, 115, 101, 32, 108, 97, 110, 103, 117, 97, 103, 101, 58>>,
  FR |->
    <<67, 104, 111, 105, 115, 105, 115, 115, 101, 122, 32, 108, 97, 32, 108, 97, 110, 103, 117,
    101, 58>> ]

\* src/bot.py:941-944
PRESENTATION_FAIL_MSG == [
  UA |->
    <<1053, 1077, 32, 1079, 1084, 1110, 1075, 32, 1074, 1110, 1076, 1087, 1088, 1072, 1074,
    1080, 1090, 1080, 32, 1087, 1088, 1077, 1079, 1077, 1085, 1090, 1072, 1094, 1110, 1102, 46,
    32, 1057, 1082, 1072, 1078, 1110, 1090, 1100, 32, 8212, 32, 1110, 32, 1103, 32, 1085, 1072,
    1076, 1110, 1096, 1083, 1102, 32, 1110, 1085, 1096, 1080, 1084, 32, 1089, 1087, 1086, 1089,
    1086, 1073, 1086, 1084, 46>>,
  RU |->
    <<1053, 1077, 32, 1087, 1086, 1083, 1091, 1095, 1080, 1083, 1086, 1089, 1100, 32, 1086,
    1090, 1087, 1088, 1072, 1074, 1080, 1090, 1100, 32, 1087, 1088, 1077, 1079, 1077, 1085,
    1090, 1072, 1094, 1080, 1102, 46, 32, 1057, 1082, 1072, 1078, 1080, 1090, 1077, 32, 8212,
    32, 1080, 32, 1103, 32, 1087, 1088, 1080, 1096, 1083, 1102, 32, 1076, 1088, 1091, 1075,
    1080, 1084, 32, 1089, 1087, 1086, 1089, 1086, 1073, 1086, 1084, 46>>,
  EN |->
    <<73, 32, 99, 111, 117, 108, 100, 110, 39, 116, 32, 115, 101, 110, 100, 32, 116, 104, 101,
    32, 112, 114, 101, 115, 101, 110, 116, 97, 116, 105, 111, 110, 32, 102, 105, 108, 101, 32,
    104, 101, 114, 101, 46, 32, 84, 101, 108, 108, 32, 109, 101, 32, 97, 110, 100, 32, 73, 8217,
    108, 108, 32, 115, 104, 97, 114, 101, 32, 105, 116, 32, 97, 110, 111, 116, 104, 101, 114,
    32, 119, 97, 121, 46>>,
  FR |->
    <<74, 101, 32, 110, 8217, 97, 114, 114, 105, 118, 101, 32, 112, 97, 115, 32, 224, 32, 101,
    110, 118, 111, 121, 101, 114, 32, 108, 97, 32, 112, 114, 233, 115, 101, 110, 116, 97, 116,
    105, 111, 110, 32, 105, 99, 105, 46, 32, 68, 105, 116, 101, 115, 45, 109, 111, 105, 32, 101,
    116, 32, 106, 101, 32, 108, 97, 32, 112, 97, 114, 116, 97, 103, 101, 114, 97, 105, 32, 97,
    117, 116, 114, 101, 109, 101, 110, 116, 46>> ]

\* src/bot.py:950-950
PRESENTATION_DONE_MSG == [
  UA |->
    <<1043, 1086, 1090, 1086, 1074, 1086, 46>>,
  RU |->
    <<1043, 1086, 1090, 1086, 1074, 1086, 46>>,
  EN |->
    <<68, 111, 110, 101, 46>>,
  FR |->
    <<67, 8217, 101, 115, 116, 32, 102, 97, 105, 116, 46>> ]

\* src/bot.py:955-958
PRESENTATION_MISSING_MSG == [
  UA |->
    <<1055, 1088, 1077, 1079, 1077, 1085, 1090, 1072, 1094, 1110, 1103, 32, 1097, 1077, 32,
    1085, 1077, 32, 1087, 1110, 1076, 1082, 1083, 1102, 1095, 1077, 1085, 1072, 46, 32, 1044,
    1086, 1076, 1072, 1084, 1086, 32, 1092, 1072, 1081, 1083, 32, 8212, 32, 1110, 32, 1082,
    1085, 1086, 1087, 1082, 1072, 32, 1087, 1086, 1095, 1085, 1077, 32, 1085, 1072, 1076, 1089,
    1080, 1083, 1072, 1090, 1080, 32, 80, 68, 70, 46>>,
  RU |->
    <<1055, 1088, 1077, 1079, 1077, 1085, 1090, 1072, 1094, 1080, 1103, 32, 1077, 1097, 1105,
    32, 1085, 1077, 32, 1087, 1086, 1076, 1082, 1083, 1102, 1095, 1077, 1085, 1072, 46, 32,
    1044, 1086, 1073, 1072, 1074, 1080, 1084, 32, 1092, 1072, 1081, 1083, 32, 8212, 32, 1080,
    32, 1082, 1085, 1086, 1087, 1082, 1072, 32, 1085, 1072, 1095, 1085, 1105, 1090, 32, 1086,
    1090, 1087, 1088, 1072, 1074, 1083, 1103, 1090, 1100, 32, 80, 68, 70, 46>>,
  EN |->
    <<84, 104, 101, 32, 112, 114, 101, 115, 101, 110, 116, 97, 116, 105, 111, 110, 32, 105, 115,
    32, 110, 111, 116, 32, 99, 111, 110, 110, 101, 99, 116, 101, 100, 32, 121, 101, 116, 46, 32,
    79, 110, 99, 101, 32, 119, 101, 32, 97, 100, 100, 32, 116, 104, 101, 32, 102, 105, 108, 101,
    44, 32, 116, 104, 101, 32, 98, 117, 116, 116, 111, 110, 32, 119, 105, 108, 108, 32, 115,
    101, 110, 100, 32, 116, 104, 101, 32, 80, 68, 70, 46>>,
  FR |->
    <<76, 97, 32, 112, 114, 233, 115, 101, 110, 116, 97, 116, 105, 111, 110, 32, 110, 8217, 101,
    115, 116, 32, 112, 97, 115, 32, 101, 110, 99, 111, 114, 101, 32, 99, 111, 110, 110, 101, 99,
    116, 233, 101, 46, 32, 68, 232, 115, 32, 113, 117, 8217, 111, 110, 32, 97, 106, 111, 117,
    116, 101, 32, 108, 101, 32, 102, 105, 99, 104, 105, 101, 114, 44, 32, 108, 101, 32, 98, 111,
    117, 116, 111, 110, 32, 101, 110, 118, 101, 114, 114, 97, 32, 108, 101, 32, 80, 68, 70, 46>> ]

\* src/bot.py:976-981
LEAD_MSG == [
  UA |->
    <<1062, 1077, 32, 1093, 1086, 1088, 1086, 1096, 1080, 1081, 32, 1079, 1072, 1087, 1080,
    1090, 44, 32, 1076, 1072, 1074, 1072, 1081, 1090, 1077, 32, 1076, 1077, 1090, 1072, 1083,
    1100, 1085, 1086, 32, 1088, 1086, 1079, 1073, 1077, 1088, 1077, 1084, 1086, 32, 1094, 1077,
    32, 1087, 1080, 1090, 1072, 1085, 1085, 1103, 46, 32, 1053, 1072, 1087, 1080, 1096, 1110,
    1090, 1100, 58, 32, 49, 41, 32, 1084, 1110, 1089, 1090, 1086, 47, 1088, 1072, 1081, 1086,
    1085, 44, 32, 50, 41, 32, 1090, 1080, 1087, 32, 1083, 1086, 1082, 1072, 1094, 1110, 1111,
    44, 32, 51, 41, 32, 1084, 1110, 1089, 1094, 1077, 32, 1074, 1078, 1077, 32, 1108, 32, 1095,
    1080, 32, 1074, 1080, 32, 1074, 32, 1087, 1086, 1096, 1091, 1082, 1091, 46>>,
  RU |->
    <<1069, 1090, 1086, 32, 1093, 1086, 1088, 1086, 1096, 1080, 1081, 32, 1074, 1086, 1087,
    1088, 1086, 1089, 44, 32, 1076, 1072, 1074, 1072, 1081, 1090, 1077, 32, 1076, 1077, 1090,
    1072, 1083, 1100, 1085, 1086, 32, 1088, 1072, 1079, 1073, 1077, 1088, 1077, 1084, 32, 1101,
    1090, 1086, 1090, 32, 1074, 1086, 1087, 1088, 1086, 1089, 46, 32, 1053, 1072, 1087, 1080,
    1096, 1080, 1090, 1077, 58, 32, 49, 41, 32, 1075, 1086, 1088, 1086, 1076, 47, 1088, 1072,
    1081, 1086, 1085, 44, 32, 50, 41, 32, 1090, 1080, 1087, 32, 1083, 1086, 1082, 1072, 1094,
    1080, 1080, 44, 32, 51, 41, 32, 1084, 1077, 1089, 1090, 1086, 32, 1091, 1078, 1077, 32,
    1077, 1089, 1090, 1100, 32, 1080, 1083, 1080, 32, 1074, 1099, 32, 1074, 32, 1087, 1086,
    1080, 1089, 1082, 1077, 46>>,
  EN |->
    <<84, 104, 97, 116, 8217, 115, 32, 97, 32, 103, 111, 111, 100, 32, 113, 117, 101, 115, 116,
    105, 111, 110, 32, 8212, 32, 108, 101, 116, 8217, 115, 32, 98, 114, 101, 97, 107, 32, 105,
    116, 32, 100, 111, 119, 110, 46, 32, 80, 108, 101, 97, 115, 101, 32, 116, 101, 108, 108, 32,
    109, 101, 58, 32, 49, 41, 32, 99, 105, 116, 121, 47, 97, 114, 101, 97, 44, 32, 50, 41, 32,
    108, 111, 99, 97, 116, 105, 111, 110, 32, 116, 121, 112, 101, 44, 32, 51, 41, 32, 100, 111,
    32, 121, 111, 117, 32, 97, 108, 114, 101, 97, 100, 121, 32, 104, 97, 118, 101, 32, 97, 32,
    115, 112, 111, 116, 32, 111, 114, 32, 115, 116, 105, 108, 108, 32, 115, 101, 97, 114, 99,
    104, 105, 110, 103, 63>>,
  FR |->
    <<66, 111, 110, 110, 101, 32, 113, 117, 101, 115, 116, 105, 111, 110, 32, 8212, 32, 114,
    101, 103, 97, 114, 100, 111, 110, 115, 32, 231, 97, 46, 32, 68, 105, 116, 101, 115, 45, 109,
    111, 105, 32, 58, 32, 49, 41, 32, 118, 105, 108, 108, 101, 47, 113, 117, 97, 114, 116, 105,
    101, 114, 44, 32, 50, 41, 32, 116, 121, 112, 101, 32, 100, 8217, 101, 109, 112, 108, 97, 99,
    101, 109, 101, 110, 116, 44, 32, 51, 41, 32, 118, 111, 117, 115, 32, 97, 118, 101, 122, 32,
    100, 233, 106, 224, 32, 117, 110, 32, 108, 105, 101, 117, 32, 111, 117, 32, 118, 111, 117,
    115, 32, 99, 104, 101, 114, 99, 104, 101, 122, 32, 63>> ]

\* src/bot.py:837  \u041f\u0440\u0438\u0432\u0435\u0442!
START_MSG_DEFAULT ==
    <<1055, 1088, 1080, 1074, 1077, 1090, 33>>

\* src/bot.py:870  OK
LANG_CONFIRM_DEFAULT ==
    <<79, 75>>

\* src/bot.py:905  \u041d\u0435 \u0441\u043c\u043e\u0433 \u0440\u0430\u0441\u043f\u043e\u
VOICE_FAIL_DEFAULT ==
    <<1053, 1077, 32, 1089, 1084, 1086, 1075, 32, 1088, 1072, 1089, 1087, 1086, 1079, 1085,
    1072, 1090, 1100, 46>>

\* src/bot.py:926  Choose language:
LANG_PROMPT_DEFAULT ==
    <<67, 104, 111, 111, 115, 101, 32, 108, 97, 110, 103, 117, 97, 103, 101, 58>>

\* src/bot.py:944  Couldn't send the presentation.
PRESENTATION_FAIL_DEFAULT ==
    <<67, 111, 117, 108, 100, 110, 39, 116, 32, 115, 101, 110, 100, 32, 116, 104, 101, 32, 112,
    114, 101, 115, 101, 110, 116, 97, 116, 105, 111, 110, 46>>

\* src/bot.py:950  Done.
PRESENTATION_DONE_DEFAULT ==
    <<68, 111, 110, 101, 46>>

\* src/bot.py:958  Presentation not connected yet.
PRESENTATION_MISSING_DEFAULT ==
    <<80, 114, 101, 115, 101, 110, 116, 97, 116, 105, 111, 110, 32, 110, 111, 116, 32, 99, 111,
    110, 110, 101, 99, 116, 101, 100, 32, 121, 101, 116, 46>>

\* src/bot.py:981  \u041e\u043a, \u0443\u0442\u043e\u0447\u043d\u0438\u0442\u0435 \u0434\
LEAD_MSG_DEFAULT ==
    <<1054, 1082, 44, 32, 1091, 1090, 1086, 1095, 1085, 1080, 1090, 1077, 32, 1076, 1077, 1090,
    1072, 1083, 1080, 46>>

\* src/bot.py:553-557  \u0426\u0435 \u0445\u043e\u0440\u043e\u0448\u0438\u0439 \u0437\u0430\u
PROFIT_QUESTION_UA ==
    <<1062, 1077, 32, 1093, 1086, 1088, 1086, 1096, 1080, 1081, 32, 1079, 1072, 1087, 1080,
    1090, 44, 32, 1076, 1072, 1074, 1072, 1081, 1090, 1077, 32, 1076, 1077, 1090, 1072, 1083,
    1100, 1085, 1086, 32, 1088, 1086, 1079, 1073, 1077, 1088, 1077, 1084, 1086, 32, 1094, 1077,
    32, 1087, 1080, 1090, 1072, 1085, 1085, 1103, 46, 32, 1057, 1082, 1110, 1083, 1100, 1082,
    1080, 32, 1095, 1072, 1096, 1086, 1082, 32, 1085, 1072, 32, 1076, 1077, 1085, 1100, 32,
    1074, 1080, 32, 1087, 1083, 1072, 1085, 1091, 1108, 1090, 1077, 32, 1087, 1088, 1086, 1076,
    1072, 1074, 1072, 1090, 1080, 32, 40, 1074, 1110, 1076, 32, 49, 32, 1076, 1086, 32, 50, 48,
    48, 41, 63, 32, 1071, 32, 1087, 1086, 1088, 1072, 1093, 1091, 1102, 32, 1084, 1086, 1076,
    1077, 1083, 1100, 58, 32, 49, 44, 56, 32, 8364, 32, 1084, 1072, 1088, 1078, 1072, 32, 215,
    32, 1095, 1072, 1096, 1082, 1080, 32, 215, 32, 51, 48, 32, 1076, 1085, 1110, 1074, 32, 1084,
    1110, 1085, 1091, 1089, 32, 1089, 1077, 1088, 1077, 1076, 1085, 1110, 32, 1074, 1080, 1090,
    1088, 1072, 1090, 1080, 32, 52, 53, 48, 8211, 54, 48, 48, 32, 8364, 46>>

\* src/bot.py:559-563  That\u2019s a good question \u2014 let\u2019s calculate it properly. H
PROFIT_QUESTION_EN ==
    <<84, 104, 97, 116, 8217, 115, 32, 97, 32, 103, 111, 111, 100, 32, 113, 117, 101, 115, 116,
    105, 111, 110, 32, 8212, 32, 108, 101, 116, 8217, 115, 32, 99, 97, 108, 99, 117, 108, 97,
    116, 101, 32, 105, 116, 32, 112, 114, 111, 112, 101, 114, 108, 121, 46, 32, 72, 111, 119,
    32, 109, 97, 110, 121, 32, 99, 117, 112, 115, 32, 112, 101, 114, 32, 100, 97, 121, 32, 100,
    111, 32, 121, 111, 117, 32, 101, 120, 112, 101, 99, 116, 32, 40, 49, 32, 116, 111, 32, 50,
    48, 48, 41, 63, 32, 73, 8217, 108, 108, 32, 99, 97, 108, 99, 117, 108, 97, 116, 101, 58, 32,
    49, 46, 56, 32, 8364, 32, 109, 97, 114, 103, 105, 110, 32, 215, 32, 99, 117, 112, 115, 32,
    215, 32, 51, 48, 32, 100, 97, 121, 115, 32, 109, 105, 110, 117, 115, 32, 116, 121, 112, 105,
    99, 97, 108, 32, 109, 111, 110, 116, 104, 108, 121, 32, 99, 111, 115, 116, 115, 32, 111,
    102, 32, 52, 53, 48, 8211, 54, 48, 48, 32, 8364, 46>>

\* src/bot.py:565-569  Bonne question \u2014 calculons \xe7a proprement. Combien de tasses pa
PROFIT_QUESTION_FR ==
    <<66, 111, 110, 110, 101, 32, 113, 117, 101, 115, 116, 105, 111, 110, 32, 8212, 32, 99, 97,
    108, 99, 117, 108, 111, 110, 115, 32, 231, 97, 32, 112, 114, 111, 112, 114, 101, 109, 101,
    110, 116, 46, 32, 67, 111, 109, 98, 105, 101, 110, 32, 100, 101, 32, 116, 97, 115, 115, 101,
    115, 32, 112, 97, 114, 32, 106, 111, 117, 114, 32, 118, 105, 115, 101, 122, 45, 118, 111,
    117, 115, 32, 40, 49, 32, 224, 32, 50, 48, 48, 41, 32, 63, 32, 74, 101, 32, 99, 97, 108, 99,
    117, 108, 101, 32, 58, 32, 109, 97, 114, 103, 101, 32, 49, 44, 56, 32, 8364, 32, 215, 32,
    116, 97, 115, 115, 101, 115, 32, 215, 32, 51, 48, 32, 106, 111, 117, 114, 115, 32, 109, 111,
    105, 110, 115, 32, 108, 101, 115, 32, 99, 111, 251, 116, 115, 32, 109, 101, 110, 115, 117,
    101, 108, 115, 32, 109, 111, 121, 101, 110, 115, 32, 52, 53, 48, 8211, 54, 48, 48, 32, 8364,
    46>>

\* src/bot.py:570-574  \u042d\u0442\u043e \u0445\u043e\u0440\u043e\u0448\u0438\u0439 \u0432\u
PROFIT_QUESTION_RU ==
    <<1069, 1090, 1086, 32, 1093, 1086, 1088, 1086, 1096, 1080, 1081, 32, 1074, 1086, 1087,
    1088, 1086, 1089, 44, 32, 1076, 1072, 1074, 1072, 1081, 1090, 1077, 32, 1076, 1077, 1090,
    1072, 1083, 1100, 1085, 1086, 32, 1088, 1072, 1079, 1073, 1077, 1088, 1077, 1084, 32, 1101,
    1090, 1086, 1090, 32, 1074, 1086, 1087, 1088, 1086, 1089, 46, 32, 1057, 1082, 1086, 1083,
    1100, 1082, 1086, 32, 1095, 1072, 1096, 1077, 1082, 32, 1074, 32, 1076, 1077, 1085, 1100,
    32, 1074, 1099, 32, 1087, 1083, 1072, 1085, 1080, 1088, 1091, 1077, 1090, 1077, 32, 1087,
    1088, 1086, 1076, 1072, 1074, 1072, 1090, 1100, 32, 40, 1086, 1090, 32, 49, 32, 1076, 1086,
    32, 50, 48, 48, 41, 63, 32, 1071, 32, 1087, 1086, 1089, 1095, 1080, 1090, 1072, 1102, 32,
    1084, 1086, 1076, 1077, 1083, 1100, 58, 32, 49, 44, 56, 32, 8364, 32, 1084, 1072, 1088,
    1078, 1072, 32, 215, 32, 1095, 1072, 1096, 1082, 1080, 32, 215, 32, 51, 48, 32, 1076, 1085,
    1077, 1081, 32, 1084, 1080, 1085, 1091, 1089, 32, 1089, 1088, 1077, 1076, 1085, 1080, 1077,
    32, 1088, 1072, 1089, 1093, 1086, 1076, 1099, 32, 52, 53, 48, 8211, 54, 48, 48, 32, 8364,
    46>>

\* src/bot.py:587-592  \u0426\u0435 \u0445\u043e\u0440\u043e\u0448\u0438\u0439 \u0437\u0430\u
PROFIT_UA_P0 ==
    <<1062, 1077, 32, 1093, 1086, 1088, 1086, 1096, 1080, 1081, 32, 1079, 1072, 1087, 1080,
    1090, 44, 32, 1076, 1072, 1074, 1072, 1081, 1090, 1077, 32, 1076, 1077, 1090, 1072, 1083,
    1100, 1085, 1086, 32, 1088, 1086, 1079, 1073, 1077, 1088, 1077, 1084, 1086, 32, 1094, 1077,
    32, 1087, 1080, 1090, 1072, 1085, 1085, 1103, 46, 32, 1071, 1082, 1097, 1086, 32, 1087,
    1088, 1086, 1076, 1072, 1074, 1072, 1090, 1080, 32>>

\* src/bot.py:587-592   \u0447\u0430\u0448\u043e\u043a \u043d\u0430 \u0434\u0435\u043d\u044c:
PROFIT_UA_P1 ==
    <<32, 1095, 1072, 1096, 1086, 1082, 32, 1085, 1072, 32, 1076, 1077, 1085, 1100, 58, 32, 49,
    44, 56, 32, 8364, 32, 215, 32>>

\* src/bot.py:587-592   \xd7 30 = \u043f\u0440\u0438\u0431\u043b\u0438\u0437\u043d\u043e 
PROFIT_UA_P2 ==
    <<32, 215, 32, 51, 48, 32, 61, 32, 1087, 1088, 1080, 1073, 1083, 1080, 1079, 1085, 1086,
    32>>

\* src/bot.py:587-592   \u0432\u0430\u043b\u043e\u0432\u043e\u0457 \u043c\u0430\u0440\u0436\u
PROFIT_UA_P3 ==
    <<32, 1074, 1072, 1083, 1086, 1074, 1086, 1111, 32, 1084, 1072, 1088, 1078, 1110, 32, 1085,
    1072, 32, 1084, 1110, 1089, 1103, 1094, 1100, 46, 32, 1055, 1110, 1089, 1083, 1103, 32,
    1089, 1077, 1088, 1077, 1076, 1085, 1110, 1093, 32, 1074, 1080, 1090, 1088, 1072, 1090, 32,
    52, 53, 48, 8211, 54, 48, 48, 32, 8364, 32, 1079, 1072, 1083, 1080, 1096, 1072, 1108, 1090,
    1100, 1089, 1103, 32, 1086, 1088, 1110, 1108, 1085, 1090, 1086, 1074, 1085, 1086, 32>>

\* src/bot.py:587-592  \u2013
PROFIT_UA_P4 ==
    <<8211>>

\* src/bot.py:587-592   \u043d\u0430 \u043c\u0456\u0441\u044f\u0446\u044c. \u042f\u043a\u0449
PROFIT_UA_P5 ==
    <<32, 1085, 1072, 32, 1084, 1110, 1089, 1103, 1094, 1100, 46, 32, 1071, 1082, 1097, 1086,
    32, 1093, 1086, 1095, 1077, 1090, 1077, 32, 8212, 32, 1089, 1082, 1072, 1078, 1110, 1090,
    1100, 32, 1083, 1086, 1082, 1072, 1094, 1110, 1102, 32, 40, 1084, 1110, 1089, 1090, 1086,
    47, 1088, 1072, 1081, 1086, 1085, 41, 32, 1110, 32, 1103, 32, 1087, 1110, 1076, 1082, 1072,
    1078, 1091, 44, 32, 1085, 1072, 32, 1097, 1086, 32, 1079, 1074, 1077, 1088, 1085, 1091,
    1090, 1080, 32, 1091, 1074, 1072, 1075, 1091, 44, 32, 1097, 1086, 1073, 32, 1094, 1110, 32,
    1094, 1080, 1092, 1088, 1080, 32, 1073, 1091, 1083, 1080, 32, 1088, 1077, 1072, 1083, 1110,
    1089, 1090, 1080, 1095, 1085, 1080, 1084, 1080, 46>>

\* src/bot.py:594-599  That\u2019s a good question \u2014 let\u2019s calculate it properly. I
PROFIT_EN_P0 ==
    <<84, 104, 97, 116, 8217, 115, 32, 97, 32, 103, 111, 111, 100, 32, 113, 117, 101, 115, 116,
    105, 111, 110, 32, 8212, 32, 108, 101, 116, 8217, 115, 32, 99, 97, 108, 99, 117, 108, 97,
    116, 101, 32, 105, 116, 32, 112, 114, 111, 112, 101, 114, 108, 121, 46, 32, 73, 102, 32,
    121, 111, 117, 32, 115, 101, 108, 108, 32>>

\* src/bot.py:594-599   cups/day: 1.8 \u20ac \xd7 
PROFIT_EN_P1 ==
    <<32, 99, 117, 112, 115, 47, 100, 97, 121, 58, 32, 49, 46, 56, 32, 8364, 32, 215, 32>>

\* src/bot.py:594-599   \xd7 30 \u2248 
PROFIT_EN_P2 ==
    <<32, 215, 32, 51, 48, 32, 8776, 32>>

\* src/bot.py:594-599   gross margin/month. After typical costs of 450\u2013600 \u20ac, you\u
PROFIT_EN_P3 ==
    <<32, 103, 114, 111, 115, 115, 32, 109, 97, 114, 103, 105, 110, 47, 109, 111, 110, 116, 104,
    46, 32, 65, 102, 116, 101, 114, 32, 116, 121, 112, 105, 99, 97, 108, 32, 99, 111, 115, 116,
    115, 32, 111, 102, 32, 52, 53, 48, 8211, 54, 48, 48, 32, 8364, 44, 32, 121, 111, 117, 8217,
    114, 101, 32, 97, 116, 32, 114, 111, 117, 103, 104, 108, 121, 32>>

\* src/bot.py:594-599  \u2013
PROFIT_EN_P4 ==
    <<8211>>

\* src/bot.py:594-599   per month. If you share the city/area and location type, I\u2019ll he
PROFIT_EN_P5 ==
    <<32, 112, 101, 114, 32, 109, 111, 110, 116, 104, 46, 32, 73, 102, 32, 121, 111, 117, 32,
    115, 104, 97, 114, 101, 32, 116, 104, 101, 32, 99, 105, 116, 121, 47, 97, 114, 101, 97, 32,
    97, 110, 100, 32, 108, 111, 99, 97, 116, 105, 111, 110, 32, 116, 121, 112, 101, 44, 32, 73,
    8217, 108, 108, 32, 104, 101, 108, 112, 32, 121, 111, 117, 32, 115, 97, 110, 105, 116, 121,
    45, 99, 104, 101, 99, 107, 32, 116, 104, 101, 32, 97, 115, 115, 117, 109, 112, 116, 105,
    111, 110, 115, 46>>

\* src/bot.py:601-606  Bonne question \u2014 calculons \xe7a proprement. \xc0 
PROFIT_FR_P0 ==
    <<66, 111, 110, 110, 101, 32, 113, 117, 101, 115, 116, 105, 111, 110, 32, 8212, 32, 99, 97,
    108, 99, 117, 108, 111, 110, 115, 32, 231, 97, 32, 112, 114, 111, 112, 114, 101, 109, 101,
    110, 116, 46, 32, 192, 32>>

\* src/bot.py:601-606   tasses/jour : 1,8 \u20ac \xd7 
PROFIT_FR_P1 ==
    <<32, 116, 97, 115, 115, 101, 115, 47, 106, 111, 117, 114, 32, 58, 32, 49, 44, 56, 32, 8364,
    32, 215, 32>>

\* src/bot.py:601-606   \xd7 30 \u2248 
PROFIT_FR_P2 ==
    <<32, 215, 32, 51, 48, 32, 8776, 32>>

\* src/bot.py:601-606   de marge brute/mois. Apr\xe8s des co\xfbts moyens de 450\u2013600 \u2
PROFIT_FR_P3 ==
    <<32, 100, 101, 32, 109, 97, 114, 103, 101, 32, 98, 114, 117, 116, 101, 47, 109, 111, 105,
    115, 46, 32, 65, 112, 114, 232, 115, 32, 100, 101, 115, 32, 99, 111, 251, 116, 115, 32, 109,
    111, 121, 101, 110, 115, 32, 100, 101, 32, 52, 53, 48, 8211, 54, 48, 48, 32, 8364, 44, 32,
    105, 108, 32, 114, 101, 115, 116, 101, 32, 101, 110, 118, 105, 114, 111, 110, 32>>

\* src/bot.py:601-606  \u2013
PROFIT_FR_P4 ==
    <<8211>>

\* src/bot.py:601-606   par mois. Si vous me dites la ville/quartier et le type d\u2019emplac
PROFIT_FR_P5 ==
    <<32, 112, 97, 114, 32, 109, 111, 105, 115, 46, 32, 83, 105, 32, 118, 111, 117, 115, 32,
    109, 101, 32, 100, 105, 116, 101, 115, 32, 108, 97, 32, 118, 105, 108, 108, 101, 47, 113,
    117, 97, 114, 116, 105, 101, 114, 32, 101, 116, 32, 108, 101, 32, 116, 121, 112, 101, 32,
    100, 8217, 101, 109, 112, 108, 97, 99, 101, 109, 101, 110, 116, 44, 32, 106, 101, 32, 118,
    111, 117, 115, 32, 97, 105, 100, 101, 32, 224, 32, 118, 97, 108, 105, 100, 101, 114, 32, 99,
    101, 115, 32, 104, 121, 112, 111, 116, 104, 232, 115, 101, 115, 46>>

\* src/bot.py:607-612  \u042d\u0442\u043e \u0445\u043e\u0440\u043e\u0448\u0438\u0439 \u0432\u
PROFIT_RU_P0 ==
    <<1069, 1090, 1086, 32, 1093, 1086, 1088, 1086, 1096, 1080, 1081, 32, 1074, 1086, 1087,
    1088, 1086, 1089, 44, 32, 1076, 1072, 1074, 1072, 1081, 1090, 1077, 32, 1076, 1077, 1090,
    1072, 1083, 1100, 1085, 1086, 32, 1088, 1072, 1079, 1073, 1077, 1088, 1077, 1084, 32, 1101,
    1090, 1086, 1090, 32, 1074, 1086, 1087, 1088, 1086, 1089, 46, 32, 1045, 1089, 1083, 1080,
    32, 1087, 1088, 1086, 1076, 1072, 1074, 1072, 1090, 1100, 32>>

\* src/bot.py:607-612   \u0447\u0430\u0448\u0435\u043a \u0432 \u0434\u0435\u043d\u044c: 1,8 \
PROFIT_RU_P1 ==
    <<32, 1095, 1072, 1096, 1077, 1082, 32, 1074, 32, 1076, 1077, 1085, 1100, 58, 32, 49, 44,
    56, 32, 8364, 32, 215, 32>>

\* src/bot.py:607-612   \xd7 30 = \u043f\u0440\u0438\u043c\u0435\u0440\u043d\u043e 
PROFIT_RU_P2 ==
    <<32, 215, 32, 51, 48, 32, 61, 32, 1087, 1088, 1080, 1084, 1077, 1088, 1085, 1086, 32>>

\* src/bot.py:607-612   \u0432\u0430\u043b\u043e\u0432\u043e\u0439 \u043c\u0430\u0440\u0436\u
PROFIT_RU_P3 ==
    <<32, 1074, 1072, 1083, 1086, 1074, 1086, 1081, 32, 1084, 1072, 1088, 1078, 1080, 32, 1074,
    32, 1084, 1077, 1089, 1103, 1094, 46, 32, 1055, 1086, 1089, 1083, 1077, 32, 1089, 1088,
    1077, 1076, 1085, 1080, 1093, 32, 1088, 1072, 1089, 1093, 1086, 1076, 1086, 1074, 32, 52,
    53, 48, 8211, 54, 48, 48, 32, 8364, 32, 1086, 1089, 1090, 1072, 1105, 1090, 1089, 1103, 32,
    1086, 1088, 1080, 1077, 1085, 1090, 1080, 1088, 1086, 1074, 1086, 1095, 1085, 1086, 32>>

\* src/bot.py:607-612  \u2013
PROFIT_RU_P4 ==
    <<8211>>

\* src/bot.py:607-612   \u0432 \u043c\u0435\u0441\u044f\u0446. \u0415\u0441\u043b\u0438 \u044
PROFIT_RU_P5 ==
    <<32, 1074, 32, 1084, 1077, 1089, 1103, 1094, 46, 32, 1045, 1089, 1083, 1080, 32, 1093,
    1086, 1090, 1080, 1090, 1077, 32, 8212, 32, 1089, 1082, 1072, 1078, 1080, 1090, 1077, 32,
    1075, 1086, 1088, 1086, 1076, 47, 1088, 1072, 1081, 1086, 1085, 32, 1080, 32, 1090, 1080,
    1087, 32, 1083, 1086, 1082, 1072, 1094, 1080, 1080, 44, 32, 1080, 32, 1103, 32, 1087, 1086,
    1084, 1086, 1075, 1091, 32, 1087, 1088, 1086, 1074, 1077, 1088, 1080, 1090, 1100, 32, 1088,
    1077, 1072, 1083, 1080, 1089, 1090, 1080, 1095, 1085, 1086, 1089, 1090, 1100, 32, 1101,
    1090, 1080, 1093, 32, 1094, 1080, 1092, 1088, 46>>

\* src/bot.py:673  \u0420\u043e\u0437\u0443\u043c\u0456\u044e. \u0429\u043e\u0431 \u0432\
DRAFT_FALLBACK_UA ==
    <<1056, 1086, 1079, 1091, 1084, 1110, 1102, 46, 32, 1065, 1086, 1073, 32, 1074, 1110, 1076,
    1087, 1086, 1074, 1110, 1089, 1090, 1080, 32, 1090, 1086, 1095, 1085, 1086, 58, 32, 1103,
    1082, 1072, 32, 1083, 1086, 1082, 1072, 1094, 1110, 1103, 32, 40, 1084, 1110, 1089, 1090,
    1086, 47, 1088, 1072, 1081, 1086, 1085, 41, 32, 1110, 32, 1103, 1082, 1080, 1081, 32, 1090,
    1080, 1087, 32, 1084, 1110, 1089, 1094, 1103, 32, 1074, 1080, 32, 1088, 1086, 1079, 1075,
    1083, 1103, 1076, 1072, 1108, 1090, 1077, 63>>

\* src/bot.py:675  Got it. To answer precisely: what city/area and what type of location 
DRAFT_FALLBACK_EN ==
    <<71, 111, 116, 32, 105, 116, 46, 32, 84, 111, 32, 97, 110, 115, 119, 101, 114, 32, 112,
    114, 101, 99, 105, 115, 101, 108, 121, 58, 32, 119, 104, 97, 116, 32, 99, 105, 116, 121, 47,
    97, 114, 101, 97, 32, 97, 110, 100, 32, 119, 104, 97, 116, 32, 116, 121, 112, 101, 32, 111,
    102, 32, 108, 111, 99, 97, 116, 105, 111, 110, 32, 105, 115, 32, 105, 116, 63>>

\* src/bot.py:677  Compris. Pour r\xe9pondre pr\xe9cis\xe9ment : quelle ville/quartier et
DRAFT_FALLBACK_FR ==
    <<67, 111, 109, 112, 114, 105, 115, 46, 32, 80, 111, 117, 114, 32, 114, 233, 112, 111, 110,
    100, 114, 101, 32, 112, 114, 233, 99, 105, 115, 233, 109, 101, 110, 116, 32, 58, 32, 113,
    117, 101, 108, 108, 101, 32, 118, 105, 108, 108, 101, 47, 113, 117, 97, 114, 116, 105, 101,
    114, 32, 101, 116, 32, 113, 117, 101, 108, 32, 116, 121, 112, 101, 32, 100, 8217, 101, 109,
    112, 108, 97, 99, 101, 109, 101, 110, 116, 32, 63>>

\* src/bot.py:678  \u041f\u043e\u043d\u044f\u043b. \u0427\u0442\u043e\u0431\u044b \u043e\
DRAFT_FALLBACK_RU ==
    <<1055, 1086, 1085, 1103, 1083, 46, 32, 1063, 1090, 1086, 1073, 1099, 32, 1086, 1090, 1074,
    1077, 1090, 1080, 1090, 1100, 32, 1090, 1086, 1095, 1085, 1086, 58, 32, 1082, 1072, 1082,
    1072, 1103, 32, 1083, 1086, 1082, 1072, 1094, 1080, 1103, 32, 40, 1075, 1086, 1088, 1086,
    1076, 47, 1088, 1072, 1081, 1086, 1085, 41, 32, 1080, 32, 1082, 1072, 1082, 1086, 1081, 32,
    1090, 1080, 1087, 32, 1084, 1077, 1089, 1090, 1072, 32, 1074, 1099, 32, 1088, 1072, 1089,
    1089, 1084, 1072, 1090, 1088, 1080, 1074, 1072, 1077, 1090, 1077, 63>>

\* src/bot.py:688  \u041f\u043e\u043d\u044f\u043b. \u0423\u0442\u043e\u0447\u043d\u0438\u
DRAFT_EMPTY_FALLBACK ==
    <<1055, 1086, 1085, 1103, 1083, 46, 32, 1059, 1090, 1086, 1095, 1085, 1080, 1090, 1077, 44,
    32, 1087, 1086, 1078, 1072, 1083, 1091, 1081, 1089, 1090, 1072, 44, 32, 1087, 1072, 1088,
    1091, 32, 1076, 1077, 1090, 1072, 1083, 1077, 1081, 32, 8212, 32, 1080, 32, 1087, 1088,
    1086, 1076, 1086, 1083, 1078, 1080, 1084, 46>>

\* src/bot.py:539-543  \u0441\u043a\u043e\u043b\u044c\u043a\u043e \u0437\u0430\u0440\u0430\u0431\u043e\u0442, \u0441\u043a\u043e\u043b\u044c\u043a\u043e \u044f \u0431\u0443\u0434\u0443, \u0441\u043a\u043e\u043b\u044c\u043a\
PROFIT_KEYS == <<
    <<1089, 1082, 1086, 1083, 1100, 1082, 1086, 32, 1079, 1072, 1088, 1072, 1073, 1086, 1090>>,
    <<1089, 1082, 1086, 1083, 1100, 1082, 1086, 32, 1103, 32, 1073, 1091, 1076, 1091>>,
    <<1089, 1082, 1086, 1083, 1100, 1082, 1086, 32, 1087, 1086, 1083, 1091, 1095>>,
    <<1087, 1088, 1080, 1073, 1099, 1083>>,
    <<1087, 1088, 1080, 1073, 1091, 1090>>,
    <<112, 114, 111, 102, 105, 116>>,
    <<101, 97, 114, 110>>,
    <<105, 110, 99, 111, 109, 101>>,
    <<114, 101, 110, 116, 97, 98>>,
    <<1086, 1082, 1091, 1087, 1080, 1090, 1100>>,
    <<1086, 1082, 1091, 1087>>,
    <<109, 111, 100, 101, 108>>,
    <<1073, 1080, 1079, 1085, 1077, 1089, 45, 1084, 1086, 1076, 1077, 1083, 1100>>,
    <<1089, 1082, 1086, 1083, 1100, 1082, 1086, 32, 1074, 32, 1084, 1077, 1089, 1103, 1094>>,
    <<1089, 1082, 1086, 1083, 1100, 1082, 1086, 32, 1074, 32, 1084, 1077, 1089, 1103, 1094>>,
    <<103, 114, 111, 115, 115>>,
    <<110, 101, 116>> >>

\* src/bot.py:744  \u0441\u043a\u043e\u043b\u044c\u043a\u043e, \u0441\u043a\u0456\u043b\u044c\u043a\u0438, cost, prix, \u0446\u0435\u043d\u0430, \u0441\u0442\u043e\u0438\u043c
OVERRIDE_PRICE_WORDS == <<
    <<1089, 1082, 1086, 1083, 1100, 1082, 1086>>,
    <<1089, 1082, 1110, 1083, 1100, 1082, 1080>>,
    <<99, 111, 115, 116>>,
    <<112, 114, 105, 120>>,
    <<1094, 1077, 1085, 1072>>,
    <<1089, 1090, 1086, 1080, 1084>> >>

\* src/bot.py:746  \u043e\u043a\u0443\u043f, \u043e\u043a\u0443\u043f\u043d, profit, rentab, \u043f\u0440\u0438\u0431\u044b\u043b, \u043f\u0440\u0438\u0431\u0443\u0442
OVERRIDE_PAYBACK_WORDS == <<
    <<1086, 1082, 1091, 1087>>,
    <<1086, 1082, 1091, 1087, 1085>>,
    <<112, 114, 111, 102, 105, 116>>,
    <<114, 101, 110, 116, 97, 98>>,
    <<1087, 1088, 1080, 1073, 1099, 1083>>,
    <<1087, 1088, 1080, 1073, 1091, 1090>> >>

\* src/bot.py:748  \u0443\u0441\u043b\u043e\u0432, \u0443\u043c\u043e\u0432, terms, \u043f\u0430\u0440\u0442\u043d\u0435\u0440, franch
OVERRIDE_TERMS_WORDS == <<
    <<1091, 1089, 1083, 1086, 1074>>,
    <<1091, 1084, 1086, 1074>>,
    <<116, 101, 114, 109, 115>>,
    <<1087, 1072, 1088, 1090, 1085, 1077, 1088>>,
    <<102, 114, 97, 110, 99, 104>> >>
\* src/bot.py:515  (?:chash|cups|cup) with the first alternative in Cyrillic; one literal piece each
UNIT_ALTS == <<
  << <<1095, 1072, 1096>> >>,
  << <<99, 117, 112, 115>> >>,
  << <<99, 117, 112>> >> >>

\* src/bot.py:520  (?:v\s*den'|/day|per\s*day|na\s*den') in Cyrillic/Latin; pieces are joined by \s*
DAY_ALTS == <<
  << <<1074>>, <<1076, 1077, 1085, 1100>> >>,
  << <<47, 100, 97, 121>> >>,
  << <<112, 101, 114>>, <<100, 97, 121>> >>,
  << <<1085, 1072>>, <<1076, 1077, 1085, 1100>> >> >>

\* if I sell 40 cups a day how much do I make
T_SELL40 ==
    <<105, 102, 32, 73, 32, 115, 101, 108, 108, 32, 52, 48, 32, 99, 117, 112, 115, 32, 97, 32,
    100, 97, 121, 32, 104, 111, 119, 32, 109, 117, 99, 104, 32, 100, 111, 32, 73, 32, 109, 97,
    107, 101>>

\* how much will I earn with 35 cups
T_EARN35 ==
    <<104, 111, 119, 32, 109, 117, 99, 104, 32, 119, 105, 108, 108, 32, 73, 32, 101, 97, 114,
    110, 32, 119, 105, 116, 104, 32, 51, 53, 32, 99, 117, 112, 115>>

\* what profit can I expect
T_PROFIT_NONUM ==
    <<119, 104, 97, 116, 32, 112, 114, 111, 102, 105, 116, 32, 99, 97, 110, 32, 73, 32, 101,
    120, 112, 101, 99, 116>>

\* profit in 2024
T_PROFIT_YEAR ==
    <<112, 114, 111, 102, 105, 116, 32, 105, 110, 32, 50, 48, 50, 52>>

\* profit 1150 cups
T_PROFIT_1150 ==
    <<112, 114, 111, 102, 105, 116, 32, 49, 49, 53, 48, 32, 99, 117, 112, 115>>

\* Where is the machine made?
T_HELLO ==
    <<87, 104, 101, 114, 101, 32, 105, 115, 32, 116, 104, 101, 32, 109, 97, 99, 104, 105, 110,
    101, 32, 109, 97, 100, 101, 63>>

\* what are the partnership terms
T_TERMS_Q ==
    <<119, 104, 97, 116, 32, 97, 114, 101, 32, 116, 104, 101, 32, 112, 97, 114, 116, 110, 101,
    114, 115, 104, 105, 112, 32, 116, 101, 114, 109, 115>>

\*    
T_SPACES ==
    <<32, 32, 32>>

\* empty prefix
P_NONE ==
    <<>>

\* 30 dnei po (Cyrillic) followed by a space
P_DAYS ==
    <<51, 48, 32, 1076, 1085, 1077, 1081, 32, 1087, 1086, 32>>

\* 3 shops 
P_SHOPS ==
    <<51, 32, 115, 104, 111, 112, 115, 32>>

\* profit 
P_PROFIT ==
    <<112, 114, 111, 102, 105, 116, 32>>

\* no unit word
U_NONE ==
    <<>>

\*  cups
U_CUPS ==
    <<32, 99, 117, 112, 115>>

\*  cup
U_CUP ==
    <<32, 99, 117, 112>>

\* cups
U_CUPS_GLUED ==
    <<99, 117, 112, 115>>

\* space + chashok (Cyrillic, Ukrainian genitive plural)
U_CHASHOK ==
    <<32, 1095, 1072, 1096, 1086, 1082>>

\* space + chashek (Cyrillic, Russian genitive plural)
U_CHASHEK ==
    <<32, 1095, 1072, 1096, 1077, 1082>>

\* space + chash (Cyrillic)
U_CHASH ==
    <<32, 1095, 1072, 1096>>

\* /day
U_SLASH_DAY ==
    <<47, 100, 97, 121>>

\*  per day
U_PER_DAY ==
    <<32, 112, 101, 114, 32, 100, 97, 121>>

\* space + v den' (Cyrillic)
U_V_DEN ==
    <<32, 1074, 32, 1076, 1077, 1085, 1100>>

\*  shops
U_SHOPS ==
    <<32, 115, 104, 111, 112, 115>>

\* space + euro sign, src/bot.py:584
EURO_SUFFIX ==
    <<32, 8364>>

\* src/bot.py:438-445; an atom is a word boundary (b), \s* (sp) or one character of a set (ch)
BANNED_PATTERNS == <<
  \* \b49\s*000\b
  << [k |-> "b", s |-> {}], [k |-> "ch", s |-> {52}], [k |-> "ch", s |-> {57}], [k |-> "sp", s
  |-> {}], [k |-> "ch", s |-> {48}], [k |-> "ch", s |-> {48}], [k |-> "ch", s |-> {48}], [k |->
  "b", s |-> {}] >>,
  \* \b55\s*000\b
  << [k |-> "b", s |-> {}], [k |-> "ch", s |-> {53}], [k |-> "ch", s |-> {53}], [k |-> "sp", s
  |-> {}], [k |-> "ch", s |-> {48}], [k |-> "ch", s |-> {48}], [k |-> "ch", s |-> {48}], [k |->
  "b", s |-> {}] >>,
  \* \b150\s*000\b
  << [k |-> "b", s |-> {}], [k |-> "ch", s |-> {49}], [k |-> "ch", s |-> {53}], [k |-> "ch", s
  |-> {48}], [k |-> "sp", s |-> {}], [k |-> "ch", s |-> {48}], [k |-> "ch", s |-> {48}], [k |->
  "ch", s |-> {48}], [k |-> "b", s |-> {}] >>,
  \* \b1\s*500\s*[\u2013-]\s*2\s*000\b
  << [k |-> "b", s |-> {}], [k |-> "ch", s |-> {49}], [k |-> "sp", s |-> {}], [k |-> "ch", s |->
  {53}], [k |-> "ch", s |-> {48}], [k |-> "ch", s |-> {48}], [k |-> "sp", s |-> {}], [k |->
  "ch", s |-> {8211, 45}], [k |-> "sp", s |-> {}], [k |-> "ch", s |-> {50}], [k |-> "sp", s |->
  {}], [k |-> "ch", s |-> {48}], [k |-> "ch", s |-> {48}], [k |-> "ch", s |-> {48}], [k |-> "b",
  s |-> {}] >>,
  \* \b\u043f\u0430\u0443\u0448\u0430\u043b\u044c\u043d
  << [k |-> "b", s |-> {}], [k |-> "ch", s |-> {1087}], [k |-> "ch", s |-> {1072}], [k |-> "ch",
  s |-> {1091}], [k |-> "ch", s |-> {1096}], [k |-> "ch", s |-> {1072}], [k |-> "ch", s |->
  {1083}], [k |-> "ch", s |-> {1100}], [k |-> "ch", s |-> {1085}] >>,
  \* \b\u0440\u043e\u044f\u043b\u0442\u0438\b
  << [k |-> "b", s |-> {}], [k |-> "ch", s |-> {1088}], [k |-> "ch", s |-> {1086}], [k |-> "ch",
  s |-> {1103}], [k |-> "ch", s |-> {1083}], [k |-> "ch", s |-> {1090}], [k |-> "ch", s |->
  {1080}], [k |-> "b", s |-> {}] >> >>

\* src/bot.py:623-631; an atom is a word boundary (b), \s* (sp) or one character of a set (ch)
_ALLOWED_NUMBER_PATTERNS == <<
  \* \b9\s*800\b
  << [k |-> "b", s |-> {}], [k |-> "ch", s |-> {57}], [k |-> "sp", s |-> {}], [k |-> "ch", s |->
  {56}], [k |-> "ch", s |-> {48}], [k |-> "ch", s |-> {48}], [k |-> "b", s |-> {}] >>,
  \* \b9800\b
  << [k |-> "b", s |-> {}], [k |-> "ch", s |-> {57}], [k |-> "ch", s |-> {56}], [k |-> "ch", s
  |-> {48}], [k |-> "ch", s |-> {48}], [k |-> "b", s |-> {}] >>,
  \* \b1[\.,]8\b
  << [k |-> "b", s |-> {}], [k |-> "ch", s |-> {49}], [k |-> "ch", s |-> {46, 44}], [k |-> "ch",
  s |-> {56}], [k |-> "b", s |-> {}] >>,
  \* \b35\b
  << [k |-> "b", s |-> {}], [k |-> "ch", s |-> {51}], [k |-> "ch", s |-> {53}], [k |-> "b", s
  |-> {}] >>,
  \* \b1\s*900\b
  << [k |-> "b", s |-> {}], [k |-> "ch", s |-> {49}], [k |-> "sp", s |-> {}], [k |-> "ch", s |->
  {57}], [k |-> "ch", s |-> {48}], [k |-> "ch", s |-> {48}], [k |-> "b", s |-> {}] >>,
  \* \b1900\b
  << [k |-> "b", s |-> {}], [k |-> "ch", s |-> {49}], [k |-> "ch", s |-> {57}], [k |-> "ch", s
  |-> {48}], [k |-> "ch", s |-> {48}], [k |-> "b", s |-> {}] >>,
  \* \b1\s*200\b
  << [k |-> "b", s |-> {}], [k |-> "ch", s |-> {49}], [k |-> "sp", s |-> {}], [k |-> "ch", s |->
  {50}], [k |-> "ch", s |-> {48}], [k |-> "ch", s |-> {48}], [k |-> "b", s |-> {}] >>,
  \* \b1200\b
  << [k |-> "b", s |-> {}], [k |-> "ch", s |-> {49}], [k |-> "ch", s |-> {50}], [k |-> "ch", s
  |-> {48}], [k |-> "ch", s |-> {48}], [k |-> "b", s |-> {}] >>,
  \* \b1\s*300\b
  << [k |-> "b", s |-> {}], [k |-> "ch", s |-> {49}], [k |-> "sp", s |-> {}], [k |-> "ch", s |->
  {51}], [k |-> "ch", s |-> {48}], [k |-> "ch", s |-> {48}], [k |-> "b", s |-> {}] >>,
  \* \b1300\b
  << [k |-> "b", s |-> {}], [k |-> "ch", s |-> {49}], [k |-> "ch", s |-> {51}], [k |-> "ch", s
  |-> {48}], [k |-> "ch", s |-> {48}], [k |-> "b", s |-> {}] >>,
  \* \b9\s*[\u2013-]\s*12\b
  << [k |-> "b", s |-> {}], [k |-> "ch", s |-> {57}], [k |-> "sp", s |-> {}], [k |-> "ch", s |->
  {8211, 45}], [k |-> "sp", s |-> {}], [k |-> "ch", s |-> {49}], [k |-> "ch", s |-> {50}], [k
  |-> "b", s |-> {}] >> >>

\* an assistant draft without digits
D_OK ==
    <<84, 104, 101, 32, 109, 97, 99, 104, 105, 110, 101, 32, 105, 115, 32, 97, 32, 74, 101, 116,
    105, 110, 110, 111, 32, 109, 111, 100, 101, 108, 32, 109, 97, 100, 101, 32, 102, 111, 114,
    32, 115, 101, 108, 102, 45, 115, 101, 114, 118, 105, 99, 101, 32, 112, 111, 105, 110, 116,
    115, 46>>

\* an assistant draft with a banned amount and the banned word royalti (Cyrillic)
D_LEGACY ==
    <<84, 104, 101, 32, 102, 114, 97, 110, 99, 104, 105, 115, 101, 32, 112, 97, 99, 107, 97,
    103, 101, 32, 99, 111, 115, 116, 115, 32, 52, 57, 32, 48, 48, 48, 32, 112, 108, 117, 115,
    32, 1088, 1086, 1103, 1083, 1090, 1080, 46>>

\* a verifier rewrite without digits
V_OK ==
    <<73, 116, 32, 105, 115, 32, 97, 32, 74, 101, 116, 105, 110, 110, 111, 32, 109, 97, 99, 104,
    105, 110, 101, 46, 32, 83, 104, 97, 108, 108, 32, 119, 101, 32, 108, 111, 111, 107, 32, 97,
    116, 32, 121, 111, 117, 114, 32, 108, 111, 99, 97, 116, 105, 111, 110, 63>>

\* a verifier rewrite with a number outside the allow-list
V_NUMBER ==
    <<80, 97, 121, 98, 97, 99, 107, 32, 105, 115, 32, 97, 98, 111, 117, 116, 32, 55, 32, 109,
    111, 110, 116, 104, 115, 46>>

\* a verifier rewrite with allow-listed numbers only
V_ALLOWED ==
    <<84, 104, 101, 32, 108, 97, 117, 110, 99, 104, 32, 99, 111, 115, 116, 32, 105, 115, 32, 57,
    32, 56, 48, 48, 32, 8364, 32, 97, 110, 100, 32, 116, 104, 101, 32, 109, 97, 114, 103, 105,
    110, 32, 105, 115, 32, 49, 44, 56, 32, 8364, 46>>

\* a verifier rewrite with surrounding whitespace
V_PADDED ==
    <<32, 32, 72, 97, 112, 112, 121, 32, 116, 111, 32, 104, 101, 108, 112, 46, 32, 32>>

\* a voice transcript
S_HELLO ==
    <<104, 101, 108, 108, 111, 32, 116, 104, 101, 114, 101>>

\* src/bot.py:861
CB_PREFIX ==
    <<108, 58>>

\* l:UA
CB_UA ==
    <<108, 58, 85, 65>>

\* l:RU
CB_RU ==
    <<108, 58, 82, 85>>

\* l:EN
CB_EN ==
    <<108, 58, 69, 78>>

\* l:FR
CB_FR ==
    <<108, 58, 70, 82>>

\* callback data that the handler pattern ^l:(UA|RU|EN|FR)$ rejects
CB_DE ==
    <<108, 58, 68, 69>>

\* src/bot.py:967
CONTACTS_SEP ==
    <<10, 10>>

\* prefix of the ids the collaborator gives to threads
THREAD_PREFIX ==
    <<116, 104, 114, 101, 97, 100, 95>>

\* src/bot.py:847
STATUS_USERS ==
    <<85, 115, 101, 114, 115, 58, 32>>

\* src/bot.py:847
STATUS_BLOCKED ==
    <<10, 66, 108, 111, 99, 107, 101, 100, 58, 32>>

\* src/bot.py:847
STATUS_ASSISTANT ==
    <<10, 65, 115, 115, 105, 115, 116, 97, 110, 116, 58, 32>>

\* src/bot.py:847
STATUS_TOKEN ==
    <<10, 84, 111, 107, 101, 110, 58, 32>>

\* src/bot.py:81, the horizontal ellipsis
ELLIPSIS ==
    <<8230>>

\* a value of the environment variable ASSISTANT_ID (src/bot.py:43)
ASSISTANT_ID ==
    <<97, 115, 115, 116, 95, 49>>

\* a value of the environment variable TELEGRAM_BOT_TOKEN (src/bot.py:41)
TELEGRAM_BOT_TOKEN ==
    <<49, 50, 51, 52, 53, 54, 58, 65, 66, 67, 68, 69, 70, 71, 72, 73, 74>>

\* callback data that re.match accepts because $ also matches before a final newline
CB_UA_NL ==
    <<108, 58, 85, 65, 10>>

\* callback data without the l: prefix
CB_OTHER ==
    <<109, 101, 110, 117>>

\* src/bot.py:870, the default of .get
LANG_CONFIRM_OK ==
    <<79, 75>>

\* src/bot.py:864
COLON ==
    <<58>>

\* how much does it cost
Q_PRICE ==
    <<104, 111, 119, 32, 109, 117, 99, 104, 32, 100, 111, 101, 115, 32, 105, 116, 32, 99, 111,
    115, 116>>

\* cost and terms of the contract
Q_PRICE_TERMS ==
    <<99, 111, 115, 116, 32, 97, 110, 100, 32, 116, 101, 114, 109, 115, 32, 111, 102, 32, 116,
    104, 101, 32, 99, 111, 110, 116, 114, 97, 99, 116>>

\* a verifier rewrite with the banned words royalti and paushal'n (Cyrillic, capitalised)
V_LEGACY ==
    <<1056, 1086, 1103, 1083, 1090, 1080, 32, 1085, 1077, 1090, 44, 32, 1087, 1072, 1091, 1096,
    1072, 1083, 1100, 1085, 1099, 1081, 32, 1074, 1079, 1085, 1086, 1089, 32, 1085, 1077, 32,
    1085, 1091, 1078, 1077, 1085, 46>>

\* aaaaaaa
T_SPAM7 ==
    <<97, 97, 97, 97, 97, 97, 97>>

\* !!!!!!!!!
T_SPAM9 ==
    <<33, 33, 33, 33, 33, 33, 33, 33, 33>>

\* Anna
L_NAME ==
    <<65, 110, 110, 97>>

\* +32 470 000 000
L_PHONE ==
    <<43, 51, 50, 32, 52, 55, 48, 32, 48, 48, 48, 32, 48, 48, 48>>

\* anna@example.com
L_EMAIL ==
    <<97, 110, 110, 97, 64, 101, 120, 97, 109, 112, 108, 101, 46, 99, 111, 109>>

\* Call me tomorrow
L_MESSAGE ==
    <<67, 97, 108, 108, 32, 109, 101, 32, 116, 111, 109, 111, 114, 114, 111, 119>>

(***************************************************************************)
(* Character classes and string primitives of Python 3 (str patterns are   *)
(* Unicode-aware), restricted to the scripts the inputs use: ASCII,        *)
(* Latin-1, Latin Extended and Cyrillic.                                   *)
(***************************************************************************)
IsDigit(c) == c \in 48..57

IsSpace(c) ==
    c \in ((9..13) \cup (28..32) \cup {133, 160, 5760} \cup (8192..8202)
           \cup {8232, 8233, 8239, 8287, 12288})

IsWord(c) ==
    \/ IsDigit(c)
    \/ c \in 65..90
    \/ c \in 97..122
    \/ c = 95
    \/ c \in {170, 181, 186}
    \/ (c \in 192..591 /\ c \notin {215, 247})
    \/ c \in 1024..1153
    \/ c \in 1162..1327

LowerChar(c) ==
    IF c \in 65..90 THEN c + 32
    ELSE IF c \in 192..222 /\ c # 215 THEN c + 32
    ELSE IF c \in 1040..1071 THEN c + 32
    ELSE IF c \in 1024..1039 THEN c + 80
    ELSE c

lower(t) == [i \in 1..Len(t) |-> LowerChar(t[i])]

strip(t) ==
    LET keep == {i \in 1..Len(t) : ~IsSpace(t[i])}
    IN  IF keep = {} THEN <<>>
        ELSE LET a == CHOOSE i \in keep : \A j \in keep : i <= j
                 b == CHOOSE i \in keep : \A j \in keep : j <= i
             IN  SubSeq(t, a, b)

\* t[i..] starts with the literal w
HasAt(t, i, w) ==
    /\ i >= 1
    /\ i + Len(w) - 1 <= Len(t)
    /\ \A j \in 1..Len(w) : t[i + j - 1] = w[j]

\* Python's "w in t"
Contains(t, w) == \E i \in 1..(Len(t) - Len(w) + 1) : HasAt(t, i, w)

\* any(k in t for k in keys)
ContainsAny(t, keys) == \E n \in 1..Len(keys) : Contains(t, keys[n])

\* \b at the gap before position p (1..Len(t)+1)
WordBoundary(t, p) ==
    (p > 1 /\ p - 1 <= Len(t) /\ IsWord(t[p - 1])) # (p <= Len(t) /\ IsWord(t[p]))

AllDigits(t, i, n) == i + n - 1 <= Len(t) /\ \A j \in 0..(n - 1) : IsDigit(t[i + j])

RECURSIVE IntOf(_, _, _)
\* int() of the n digits starting at i
IntOf(t, i, n) ==
    IF n = 0 THEN 0 ELSE 10 * IntOf(t, i, n - 1) + (t[i + n - 1] - 48)

\* positions reachable from p by \s*
AfterSpaces(t, p) ==
    {q \in p..(Len(t) + 1) : \A j \in p..(q - 1) : IsSpace(t[j])}

\* end positions of one alternative (literal pieces joined by \s*) started at p
AltEnds(t, p, alt) ==
    IF ~HasAt(t, p, alt[1]) THEN {}
    ELSE IF Len(alt) = 1 THEN {p + Len(alt[1])}
    ELSE {q + Len(alt[2]) : q \in {r \in AfterSpaces(t, p + Len(alt[1])) : HasAt(t, r, alt[2])}}

\* (\d{1,3})\s*(?:alts)\b matches with the group at i and n digits
NumUnitMatch(t, i, n, alts) ==
    /\ n \in 1..3
    /\ AllDigits(t, i, n)
    /\ \E q \in AfterSpaces(t, i + n) : \E a \in 1..Len(alts) :
          \E e \in AltEnds(t, q, alts[a]) : WordBoundary(t, e)

\* re.search: leftmost start, the greedy \d{1,3} keeps the longest group
\* that lets the rest match; <<>> when there is no match, else <<int(group(1))>>
NumUnitSearch(t, alts) ==
    LET starts == {i \in 1..Len(t) : \E n \in 1..3 : NumUnitMatch(t, i, n, alts)}
    IN  IF starts = {} THEN <<>>
        ELSE LET i == CHOOSE s \in starts : \A r \in starts : s <= r
                 ns == {n \in 1..3 : NumUnitMatch(t, i, n, alts)}
                 n == CHOOSE m \in ns : \A r \in ns : r <= m
             IN  <<IntOf(t, i, n)>>

\* re.findall(r"\b(\d{1,3})\b", t): start positions, in order of appearance
StandaloneNumberStarts(t) ==
    {i \in 1..Len(t) : WordBoundary(t, i) /\
        \E n \in 1..3 : AllDigits(t, i, n) /\ WordBoundary(t, i + n)}

StandaloneNumberAt(t, i) ==
    LET n == CHOOSE m \in 1..3 : AllDigits(t, i, m) /\ WordBoundary(t, i + m)
    IN  IntOf(t, i, n)

\* first component of the sort key at src/bot.py:531
SortBand(x) == IF 10 <= x /\ x <= 120 THEN 0 ELSE 1

Abs(x) == IF x < 0 THEN 0 - x ELSE x

\* the tuple order of (band, abs(x - 35))
KeyLess(x, y) ==
    \/ SortBand(x) < SortBand(y)
    \/ SortBand(x) = SortBand(y) /\ Abs(x - 35) < Abs(y - 35)

InRange(v) == 1 <= v /\ v <= 200

\* Optional[int] is <<>> for None and <<v>> for v
_parse_cups_per_day(text) ==
    IF text = <<>> THEN <<>>
    ELSE
      LET t  == lower(text)
          m1 == NumUnitSearch(t, UNIT_ALTS)
          m2 == NumUnitSearch(t, DAY_ALTS)
          pos == {i \in StandaloneNumberStarts(t) : InRange(StandaloneNumberAt(t, i))}
      IN  IF m1 # <<>> THEN (IF InRange(m1[1]) THEN m1 ELSE <<>>)
          ELSE IF m2 # <<>> THEN (IF InRange(m2[1]) THEN m2 ELSE <<>>)
          ELSE IF pos = {} THEN <<>>
          ELSE \* list.sort is stable: the earliest number with the least key
            LET best == CHOOSE i \in pos : \A j \in pos :
                          \/ KeyLess(StandaloneNumberAt(t, i), StandaloneNumberAt(t, j))
                          \/ (~KeyLess(StandaloneNumberAt(t, j), StandaloneNumberAt(t, i)) /\ i <= j)
            IN  <<StandaloneNumberAt(t, best)>>

_looks_like_profit_question(text) ==
    IF text = <<>> THEN FALSE ELSE ContainsAny(lower(text), PROFIT_KEYS)

LANGS == {"UA", "RU", "EN", "FR"}

\* gold_lang that ignores the language and always answers in Russian
gold_lang_ru(lang) == "RU"

gold_lang(lang) == IF lang \in DOMAIN GOLD THEN lang ELSE "RU"

RECURSIVE Dec(_)
\* str(n) for n >= 0
Dec(n) == IF n < 10 THEN <<48 + n>> ELSE Dec(n \div 10) \o <<48 + (n % 10)>>

Pad3(n) == <<48 + (n \div 100), 48 + ((n \div 10) % 10), 48 + (n % 10)>>

RECURSIVE Grouped(_)
\* format(n, ",") with "," replaced by " " (src/bot.py:584)
Grouped(n) == IF n < 1000 THEN Dec(n) ELSE Grouped(n \div 1000) \o <<32>> \o Pad3(n % 1000)

\* Amounts are carried in thousandths of a euro.  The source computes them
\* in binary floating point; the product 1.8 * cups * 30 is off from the
\* decimal value by a few units in the last place for some cups (13, 21,
\* 26, ...), which the parameter err of _profit_answer_fp stands for.
MILLI == 1000

\* round(x) to an integer, ties to even, of x thousandths (format spec .0f)
RoundHalfEven(x) ==
    LET a == Abs(x)
        q == a \div MILLI
        r == a % MILLI
    IN  IF 2 * r > MILLI \/ (2 * r = MILLI /\ q % 2 = 1) THEN q + 1 ELSE q

\* f"{x:,.0f} EUR".replace(",", " ")
euro(x) ==
    (IF x < 0 THEN <<45>> ELSE <<>>) \o Grouped(RoundHalfEven(x)) \o EURO_SUFFIX

margin_per_cup == 1800

days == 30

PROFIT_QUESTION == [UA |-> PROFIT_QUESTION_UA, EN |-> PROFIT_QUESTION_EN,
                    FR |-> PROFIT_QUESTION_FR, RU |-> PROFIT_QUESTION_RU]

PROFIT_PARTS == [
  UA |-> <<PROFIT_UA_P0, PROFIT_UA_P1, PROFIT_UA_P2, PROFIT_UA_P3, PROFIT_UA_P4, PROFIT_UA_P5>>,
  EN |-> <<PROFIT_EN_P0, PROFIT_EN_P1, PROFIT_EN_P2, PROFIT_EN_P3, PROFIT_EN_P4, PROFIT_EN_P5>>,
  FR |-> <<PROFIT_FR_P0, PROFIT_FR_P1, PROFIT_FR_P2, PROFIT_FR_P3, PROFIT_FR_P4, PROFIT_FR_P5>>,
  RU |-> <<PROFIT_RU_P0, PROFIT_RU_P1, PROFIT_RU_P2, PROFIT_RU_P3, PROFIT_RU_P4, PROFIT_RU_P5>> ]

\* profit_figures with the two expense figures exchanged
profit_figures_swapped(cups, err) ==
    LET gross == margin_per_cup * cups * days + err
    IN  [gross |-> gross, net_low_cost |-> gross - 450 * MILLI,
         net_high_cost |-> gross - 600 * MILLI]

\* gross, net_low_cost and net_high_cost of src/bot.py:576-580, in thousandths
profit_figures(cups, err) ==
    LET gross == margin_per_cup * cups * days + err
    IN  [gross |-> gross, net_low_cost |-> gross - 600 * MILLI,
         net_high_cost |-> gross - 450 * MILLI]

\* _profit_answer with the floating-point error of gross made explicit
_profit_answer_fp(lang, cups, err) ==
    LET gl == gold_lang(lang)
    IN  IF cups = <<>> THEN PROFIT_QUESTION[gl]
        ELSE
          LET f == profit_figures(cups[1], err)
              P == PROFIT_PARTS[gl]
          IN  P[1] \o Dec(cups[1]) \o P[2] \o Dec(cups[1]) \o P[3] \o euro(f.gross)
                \o P[4] \o euro(f.net_low_cost) \o P[5] \o euro(f.net_high_cost) \o P[6]

_profit_answer(lang, cups) == _profit_answer_fp(lang, cups, 0)

(***************************************************************************)
(* Sanity guards (src/bot.py:438-450, 623-640).                            *)
(***************************************************************************)
RECURSIVE MatchEnds(_, _, _, _)
\* end positions of the matches of atoms n.. of pat that start at p
MatchEnds(t, p, pat, n) ==
    IF n > Len(pat) THEN {p}
    ELSE IF pat[n].k = "b" THEN
        (IF WordBoundary(t, p) THEN MatchEnds(t, p, pat, n + 1) ELSE {})
    ELSE IF pat[n].k = "sp" THEN
        UNION {MatchEnds(t, q, pat, n + 1) : q \in AfterSpaces(t, p)}
    ELSE IF p <= Len(t) /\ t[p] \in pat[n].s THEN MatchEnds(t, p + 1, pat, n + 1)
    ELSE {}

\* re.search(pat, t) is not None
Search(t, pat) == \E p \in 1..(Len(t) + 1) : MatchEnds(t, p, pat, 1) # {}

looks_like_legacy_franchise(text) ==
    LET t == lower(text)
    IN  \E n \in 1..Len(BANNED_PATTERNS) : Search(t, BANNED_PATTERNS[n])

SetMax(S) == CHOOSE m \in S : \A r \in S : r <= m

RECURSIVE SubFrom(_, _, _)
\* re.sub(pat, "", t) from position i on: leftmost matches, one after another
\* (a match of these patterns is never empty)
SubFrom(t, i, pat) ==
    LET starts == {p \in i..Len(t) : MatchEnds(t, p, pat, 1) # {}}
    IN  IF starts = {} THEN SubSeq(t, i, Len(t))
        ELSE LET p == CHOOSE a \in starts : \A b \in starts : a <= b
             IN  SubSeq(t, i, p - 1) \o SubFrom(t, SetMax(MatchEnds(t, p, pat, 1)), pat)

RECURSIVE SubAll(_, _, _)
\* the loop of src/bot.py:638-639 over patterns n..
SubAll(t, pats, n) ==
    IF n > Len(pats) THEN t ELSE SubAll(SubFrom(t, 1, pats[n]), pats, n + 1)

_has_disallowed_numbers(text) ==
    IF text = <<>> THEN FALSE
    ELSE LET tmp == SubAll(text, _ALLOWED_NUMBER_PATTERNS, 1)
         IN  \E i \in 1..Len(tmp) : IsDigit(tmp[i])

\* _final_safety_override that suppresses a banned answer instead of replacing it
_final_safety_override_blank(question, answer, lang) ==
    IF answer = <<>> THEN GOLD[gold_lang(lang)].what
    ELSE IF looks_like_legacy_franchise(answer) \/ _has_disallowed_numbers(answer) THEN <<>>
    ELSE answer

_final_safety_override(question, answer, lang) ==
    IF answer = <<>> THEN GOLD[gold_lang(lang)].what
    ELSE IF looks_like_legacy_franchise(answer) \/ _has_disallowed_numbers(answer) THEN
        LET gl == gold_lang(lang)
            q == lower(question)
        IN  IF ContainsAny(q, OVERRIDE_PRICE_WORDS) THEN GOLD[gl].price
            ELSE IF ContainsAny(q, OVERRIDE_PAYBACK_WORDS) THEN GOLD[gl].payback
            ELSE IF ContainsAny(q, OVERRIDE_TERMS_WORDS) THEN GOLD[gl].terms
            ELSE GOLD[gl].what
    ELSE answer

(***************************************************************************)
(* State.                                                                  *)
(***************************************************************************)
VARIABLES
    _state,       \* user id -> UserState (src/bot.py:143)
    _blocked,     \* set of blocked user ids (src/bot.py:144)
    STATE_FILE,   \* <<>> when the file is absent, else <<its JSON document>>
    env,          \* OWNER_TELEGRAM_ID and PRESENTATION_FILE_ID of this run
    threads,      \* number of threads the collaborator has created
    last,         \* the update handled last and the branch it took
    pre,          \* _state, STATE_FILE and _blocked when the last handler started
    mid,          \* _state, STATE_FILE and _blocked when it entered ask_assistant
    sent,         \* calls to the chat platform made by the last handler
    calls,        \* calls to the collaborator made by the last handler
    ret,          \* <<what ask_assistant returned>>, <<>> if it did not return
    leads,        \* user id -> <<the texts sent since the user pressed the lead
                  \* button>>, <<>> before that; observed in SpecLead only
    issued_on,    \* <<the thread_id the last handler passed to the message and
                  \* run calls of the collaborator>>, <<>> when it made none
    pc,           \* bot process -> the place in main() it has reached
    lock          \* INSTANCE_LOCK_FILE: whether it exists, <<the process that
                  \* holds its flock>>, <<the pid written in it>>, and whether
                  \* the platform has the fcntl module

vars == <<_state, _blocked, STATE_FILE, env, threads, last, pre, mid, sent, calls, ret, leads,
         issued_on, pc, lock>>

\* user ids are one-digit numbers; str(id) orders them as the numbers do
Users == {1, 2}

NoLeads == [uid \in Users |-> <<>>]

\* the bot processes that may be started on one lock file
Procs == {1, 2, 3}

\* process 1 has taken the lock and is polling; no other process is started
PollingAlone == [p \in Procs |-> IF p = 1 THEN "polling" ELSE "off"]

LockTaken == [fcntl |-> TRUE, exists |-> TRUE, holder |-> <<1>>, pid |-> <<1>>]

\* ids that the state file may list as blocked when the process starts
BlockedAtStart == {1}

\* the longest polling loop of _assistant_draft that is explored (the
\* source allows as many iterations as fit into 45 seconds)
MaxPolls == 2

UserState == [lang |-> "RU", thread_id |-> <<>>]

MENU_KEYS == {"what", "price", "payback", "terms", "contacts", "lead", "lang", "presentation"}

RECURSIVE SortedSeq(_)
\* sorted(S)
SortedSeq(S) ==
    IF S = {} THEN <<>>
    ELSE LET m == CHOOSE a \in S : \A b \in S : a <= b
         IN  <<m>> \o SortedSeq(S \ {m})

Range(f) == {f[i] : i \in DOMAIN f}

\* the document save_state writes
save_state(st, bl) ==
    <<[blocked |-> SortedSeq(bl),
       users |-> [uid \in DOMAIN st |-> [lang |-> st[uid].lang, thread_id |-> st[uid].thread_id]]]>>

\* load_state that gives every restored session the default lang
load_state_default_lang(file) ==
    IF file = <<>> THEN [state |-> <<>>, blocked |-> {}]
    ELSE [state |-> [uid \in DOMAIN file[1].users |->
                        [lang |-> UserState.lang,
                         thread_id |-> file[1].users[uid].thread_id]],
          blocked |-> Range(file[1].blocked)]

\* _state and _blocked after load_state
load_state(file) ==
    IF file = <<>> THEN [state |-> <<>>, blocked |-> {}]
    ELSE [state |-> [uid \in DOMAIN file[1].users |->
                        [lang |-> file[1].users[uid].lang,
                         thread_id |-> file[1].users[uid].thread_id]],
          blocked |-> Range(file[1].blocked)]

\* get_user that adds the new user without writing the file
get_user_unsaved(st, fl, bl, uid) ==
    IF uid \in DOMAIN st THEN [state |-> st, file |-> fl]
    ELSE [state |-> [u \in (DOMAIN st) \cup {uid} |-> IF u = uid THEN UserState ELSE st[u]],
          file |-> fl]

\* get_user: the session map and the file afterwards
get_user(st, fl, bl, uid) ==
    IF uid \in DOMAIN st THEN [state |-> st, file |-> fl]
    ELSE LET st2 == [u \in (DOMAIN st) \cup {uid} |-> IF u = uid THEN UserState ELSE st[u]]
         IN  [state |-> st2, file |-> save_state(st2, bl)]

\* reply_menu with the seven buttons of the earlier layout, without the presentation
reply_menu_seven(lang) ==
    LET L == IF lang \in DOMAIN MENU_LABELS THEN MENU_LABELS[lang] ELSE MENU_LABELS.RU
    IN  << <<L.what>>, <<L.price>>, <<L.payback>>, <<L.terms>>,
           <<L.contacts>>, <<L.lead, L.lang>> >>

\* the rows of the reply keyboard
reply_menu(lang) ==
    LET L == IF lang \in DOMAIN MENU_LABELS THEN MENU_LABELS[lang] ELSE MENU_LABELS.RU
    IN  << <<L.what>>, <<L.price>>, <<L.payback>>, <<L.terms>>, <<L.presentation>>,
           <<L.contacts>>, <<L.lead, L.lang>> >>

lang_inline_keyboard ==
    << <<[label |-> LANG_LABELS.UA, data |-> CB_UA], [label |-> LANG_LABELS.RU, data |-> CB_RU]>>,
       <<[label |-> LANG_LABELS.EN, data |-> CB_EN], [label |-> LANG_LABELS.FR, data |-> CB_FR]>> >>

\* reply_markup values: the reply keyboard, the inline language picker,
\* ReplyKeyboardRemove() and no markup at all
MenuMarkup(lang) == [type |-> "menu", keyboard |-> reply_menu(lang)]

LangPickerMarkup == [type |-> "inline", keyboard |-> lang_inline_keyboard]

ReplyKeyboardRemove == [type |-> "remove", keyboard |-> <<>>]

NoMarkup == [type |-> "none", keyboard |-> <<>>]

\* dict.get(lang, default)
Get(d, lang, default) == IF lang \in DOMAIN d THEN d[lang] ELSE default

\* one call to the chat platform
Platform(op, text, markup) == [op |-> op, text |-> text, markup |-> markup]

show_typing == Platform("send_chat_action", <<>>, NoMarkup)

\* the id of the n-th thread the collaborator creates
ThreadId(n) == THREAD_PREFIX \o Dec(n)

(***************************************************************************)
(* Answer pipeline.  An outcome o fixes what the collaborator does during  *)
(* one ask_assistant: exc names the call that raises ("none" if none; a    *)
(* raising runs.retrieve is the first one), reports lists the statuses     *)
(* that runs.retrieve reports before the deadline, msgs is <<>> when the   *)
(* thread holds no assistant message and <<text>> otherwise, vraise tells  *)
(* whether the verifier call raises and vout is its content.               *)
(***************************************************************************)
DraftFallback == [UA |-> DRAFT_FALLBACK_UA, EN |-> DRAFT_FALLBACK_EN,
                  FR |-> DRAFT_FALLBACK_FR, RU |-> DRAFT_FALLBACK_RU]

RetrieveCalls(n) == [i \in 1..n |-> "runs.retrieve"]

\* the statuses that end the polling loop (src/bot.py:664)
TERMINAL_STATUSES == {"completed", "failed", "cancelled", "expired"}

\* the status of the run object that runs.create returns
CREATED_STATUS == "queued"

\* poll_run that leaves the loop only when the run has completed
RECURSIVE poll_run_completed_only(_, _)
poll_run_completed_only(reports, i) ==
    IF i > Len(reports) THEN [status |-> CREATED_STATUS, polls |-> i - 1]
    ELSE IF reports[i] = "completed" THEN [status |-> reports[i], polls |-> i]
    ELSE poll_run_completed_only(reports, i + 1)

\* The loop of src/bot.py:661-667 from its i-th iteration on.  reports[i] is
\* the status runs.retrieve reports at the i-th iteration; the iterations
\* after Len(reports) would begin after the deadline.  The result is the
\* status of run after the loop and the number of runs.retrieve calls.
RECURSIVE poll_run(_, _)
poll_run(reports, i) ==
    IF i > Len(reports) THEN [status |-> CREATED_STATUS, polls |-> i - 1]
    ELSE IF reports[i] \in TERMINAL_STATUSES THEN [status |-> reports[i], polls |-> i]
    ELSE poll_run(reports, i + 1)

\* ensure_thread that asks for a new thread whether or not the user has one
ensure_thread_always(st, fl, bl, th, uid, o) ==
    IF o.exc = "threads.create" THEN
        [state |-> st, file |-> fl, threads |-> th, calls |-> <<"threads.create">>,
         raised |-> TRUE, thread_id |-> <<>>]
    ELSE LET id == ThreadId(th + 1)
             st2 == [st EXCEPT ![uid].thread_id = id]
         IN  [state |-> st2, file |-> save_state(st2, bl), threads |-> th + 1,
              calls |-> <<"threads.create">>, raised |-> FALSE, thread_id |-> id]

\* ensure_thread: raised is TRUE when threads.create raises
ensure_thread(st, fl, bl, th, uid, o) ==
    IF st[uid].thread_id # <<>> THEN
        [state |-> st, file |-> fl, threads |-> th, calls |-> <<>>, raised |-> FALSE,
         thread_id |-> st[uid].thread_id]
    ELSE IF o.exc = "threads.create" THEN
        [state |-> st, file |-> fl, threads |-> th, calls |-> <<"threads.create">>,
         raised |-> TRUE, thread_id |-> <<>>]
    ELSE LET id == ThreadId(th + 1)
             st2 == [st EXCEPT ![uid].thread_id = id]
         IN  [state |-> st2, file |-> save_state(st2, bl), threads |-> th + 1,
              calls |-> <<"threads.create">>, raised |-> FALSE, thread_id |-> id]

_assistant_draft(st, fl, bl, th, uid, user_text, lang, o) ==
    LET u  == get_user(st, fl, bl, uid)
        e  == ensure_thread(u.state, u.file, bl, th, uid, o)
        R(cs, raised, text) ==
            [state |-> e.state, file |-> e.file, threads |-> e.threads,
             calls |-> e.calls \o cs, raised |-> raised, ret |-> text,
             on |-> IF e.raised THEN <<>> ELSE <<e.thread_id>>]
        run == poll_run(o.reports, 1)
        polled == <<"messages.create", "runs.create">> \o RetrieveCalls(run.polls)
    IN  IF e.raised THEN R(<<>>, TRUE, <<>>)
        ELSE IF o.exc = "messages.create" THEN R(<<"messages.create">>, TRUE, <<>>)
        ELSE IF o.exc = "runs.create" THEN R(<<"messages.create", "runs.create">>, TRUE, <<>>)
        ELSE IF o.exc = "runs.retrieve" THEN
            R(<<"messages.create", "runs.create", "runs.retrieve">>, TRUE, <<>>)
        ELSE IF run.status # "completed" THEN R(polled, FALSE, DraftFallback[gold_lang(lang)])
        ELSE IF o.exc = "messages.list" THEN R(polled \o <<"messages.list">>, TRUE, <<>>)
        ELSE IF o.msgs = <<>> THEN R(polled \o <<"messages.list">>, FALSE, DRAFT_EMPTY_FALLBACK)
        ELSE LET ans == strip(o.msgs[1])
             IN  R(polled \o <<"messages.list">>, FALSE,
                   IF ans # <<>> THEN ans ELSE DRAFT_EMPTY_FALLBACK)

_verify_and_fix(question, draft, lang, o) ==
    IF o.vraise THEN draft
    ELSE LET out == strip(o.vout)
         IN  IF out # <<>> THEN out ELSE draft

\* The handlers meet the same few texts in every state; the two scans of a
\* text by the calculator gate are computed once for each of them.
AskedTexts ==
    {strip(t) : t \in {MENU_LABELS[l][k] : l \in DOMAIN MENU_LABELS, k \in DOMAIN MENU_LABELS.RU}
                      \cup {T_SELL40, T_EARN35, T_PROFIT_NONUM, T_PROFIT_YEAR, T_PROFIT_1150,
                            T_HELLO, T_TERMS_Q, S_HELLO, T_SPAM7, T_SPAM9}}

profit_question_cache == [t \in AskedTexts |-> _looks_like_profit_question(t)]

cups_cache == [t \in AskedTexts |-> _parse_cups_per_day(t)]

LooksLikeProfitQuestion(text) ==
    IF text \in AskedTexts THEN profit_question_cache[text]
    ELSE _looks_like_profit_question(text)

ParseCupsPerDay(text) ==
    IF text \in AskedTexts THEN cups_cache[text] ELSE _parse_cups_per_day(text)

\* ask_assistant that opens the user's thread before it looks at the text
ask_assistant_thread_first(st, fl, bl, th, uid, user_text, lang, o) ==
    LET e == ensure_thread(st, fl, bl, th, uid, o)
    IN  IF e.raised THEN
            [state |-> e.state, file |-> e.file, threads |-> e.threads, calls |-> e.calls,
             raised |-> TRUE, ret |-> <<>>, on |-> <<>>]
        ELSE IF LooksLikeProfitQuestion(user_text) THEN
            [state |-> e.state, file |-> e.file, threads |-> e.threads, calls |-> e.calls,
             raised |-> FALSE, ret |-> _profit_answer(lang, ParseCupsPerDay(user_text)),
             on |-> <<>>]
        ELSE
            LET d == _assistant_draft(e.state, e.file, bl, e.threads, uid, user_text, lang, o)
            IN  IF d.raised THEN [d EXCEPT !.calls = e.calls \o @]
                ELSE LET fixed == _verify_and_fix(user_text, d.ret, lang, o)
                     IN  [d EXCEPT !.calls = e.calls \o @ \o <<"chat.completions.create">>,
                                   !.ret = _final_safety_override(user_text, fixed, lang)]

ask_assistant(st, fl, bl, th, uid, user_text, lang, o) ==
    IF LooksLikeProfitQuestion(user_text) THEN
        [state |-> st, file |-> fl, threads |-> th, calls |-> <<>>, raised |-> FALSE,
         ret |-> _profit_answer(lang, ParseCupsPerDay(user_text)), on |-> <<>>]
    ELSE
        LET d == _assistant_draft(st, fl, bl, th, uid, user_text, lang, o)
        IN  IF d.raised THEN d
            ELSE LET fixed == _verify_and_fix(user_text, d.ret, lang, o)
                 IN  [d EXCEPT !.calls = @ \o <<"chat.completions.create">>,
                               !.ret = _final_safety_override(user_text, fixed, lang)]

\* the keys of a MENU_LABELS entry in the order the dict lists them
MENU_ORDER == <<"what", "price", "payback", "terms", "contacts", "lead", "lang", "presentation">>

\* _match_menu_key that searches the labels of every language
_match_menu_key_any_lang(lang, text) ==
    LET hits == {n \in 1..Len(MENU_ORDER) :
                    \E l \in DOMAIN MENU_LABELS : text = MENU_LABELS[l][MENU_ORDER[n]]}
    IN  IF hits = {} THEN <<>>
        ELSE <<MENU_ORDER[CHOOSE n \in hits : \A m \in hits : n <= m]>>

\* _match_menu_key that always searches the Russian labels
_match_menu_key_ru_only(lang, text) ==
    LET L == MENU_LABELS.RU
        hits == {n \in 1..Len(MENU_ORDER) : text = L[MENU_ORDER[n]]}
    IN  IF hits = {} THEN <<>>
        ELSE <<MENU_ORDER[CHOOSE n \in hits : \A m \in hits : n <= m]>>

\* Optional[str]: <<>> for None, <<key>> for a key
_match_menu_key(lang, text) ==
    LET L == IF lang \in DOMAIN MENU_LABELS THEN MENU_LABELS[lang] ELSE MENU_LABELS.RU
        hits == {n \in 1..Len(MENU_ORDER) : text = L[MENU_ORDER[n]]}
    IN  IF hits = {} THEN <<>>
        ELSE <<MENU_ORDER[CHOOSE n \in hits : \A m \in hits : n <= m]>>

(***************************************************************************)
(* Handlers.  A handler is one action; Finish records what it did.         *)
(***************************************************************************)
FinishOn(st, fl, th, l, p, m, s, c, r, on) ==
    /\ issued_on' = on
    /\ _state' = st
    /\ STATE_FILE' = fl
    /\ threads' = th
    /\ last' = l
    /\ pre' = p
    /\ mid' = m
    /\ sent' = s
    /\ calls' = c
    /\ ret' = r
    /\ UNCHANGED <<_blocked, env, pc, lock>>

\* a handler that issued nothing on a thread
Finish(st, fl, th, l, p, m, s, c, r) == FinishOn(st, fl, th, l, p, m, s, c, r, <<>>)

Now == [state |-> _state, file |-> STATE_FILE, blocked |-> _blocked]

\* asked is <<the text handed to ask_assistant>>, <<>> when it was not called
Update(kind, uid, text, route, key, asked) ==
    [kind |-> kind, uid |-> uid, text |-> text, route |-> route, key |-> key, asked |-> asked]

mask_token(tok) ==
    IF tok = <<>> THEN <<>>
    ELSE IF Len(tok) <= 10 THEN tok
    ELSE SubSeq(tok, 1, 4) \o ELLIPSIS \o SubSeq(tok, Len(tok) - 5, Len(tok))

\* str(update.effective_user.id)
UserIdText(uid) == Dec(uid)

cmd_start(uid) ==
    LET u == get_user(_state, STATE_FILE, _blocked, uid)
        lang == u.state[uid].lang
        msg == Get(START_MSG, lang, START_MSG_DEFAULT)
    IN  Finish(u.state, u.file, threads, Update("start", uid, <<>>, "start", <<>>, <<>>), Now, Now,
               <<Platform("reply_text", msg, MenuMarkup(lang))>>, <<>>, <<>>)

cmd_status(uid) ==
    IF env.OWNER_TELEGRAM_ID # <<>> /\ UserIdText(uid) # env.OWNER_TELEGRAM_ID THEN
        Finish(_state, STATE_FILE, threads, Update("status", uid, <<>>, "ignored", <<>>, <<>>),
               Now, Now, <<>>, <<>>, <<>>)
    ELSE
        Finish(_state, STATE_FILE, threads, Update("status", uid, <<>>, "status", <<>>, <<>>), Now, Now,
               <<Platform("reply_text",
                          STATUS_USERS \o Dec(Cardinality(DOMAIN _state))
                            \o STATUS_BLOCKED \o Dec(Cardinality(_blocked))
                            \o STATUS_ASSISTANT \o ASSISTANT_ID
                            \o STATUS_TOKEN \o mask_token(TELEGRAM_BOT_TOKEN),
                          NoMarkup)>>,
               <<>>, <<>>)

LangText == [UA |-> <<85, 65>>, RU |-> <<82, 85>>, EN |-> <<69, 78>>, FR |-> <<70, 82>>]

\* re.match(r"^l:(UA|RU|EN|FR)$", data) of the CallbackQueryHandler
CallbackPatternMatches(data) ==
    \E l \in LANGS : data = CB_PREFIX \o LangText[l] \/ data = CB_PREFIX \o LangText[l] \o <<10>>

\* data.split(":", 1)[1].strip()
AfterColon_stripped(data) ==
    LET p == CHOOSE i \in 1..Len(data) : data[i] = COLON[1] /\ \A j \in 1..(i - 1) : data[j] # COLON[1]
    IN  strip(SubSeq(data, p + 1, Len(data)))

\* data.split(":", 1)[1] for data that contains a colon
AfterColon(data) ==
    LET p == CHOOSE i \in 1..Len(data) : data[i] = COLON[1] /\ \A j \in 1..(i - 1) : data[j] # COLON[1]
    IN  SubSeq(data, p + 1, Len(data))

\* reply_fails: q.message.reply_text raises and the handler falls back to send_message
on_lang_callback(uid, data, reply_fails) ==
    LET answered == <<Platform("answer", <<>>, NoMarkup)>>
        up(route) == Update("callback", uid, data, route, <<>>, <<>>)
    IN  IF uid \in _blocked THEN
            Finish(_state, STATE_FILE, threads, up("blocked"), Now, Now, answered, <<>>, <<>>)
        ELSE
          LET u == get_user(_state, STATE_FILE, _blocked, uid)
          IN  IF ~HasAt(data, 1, CB_PREFIX) THEN
                  Finish(u.state, u.file, threads, up("noprefix"), Now, Now, answered, <<>>, <<>>)
              ELSE
                LET code == AfterColon(data)
                    known == {l \in LANGS : LangText[l] = code}
                    st2 == IF known = {} THEN u.state
                           ELSE [u.state EXCEPT ![uid].lang = CHOOSE l \in known : TRUE]
                    fl2 == IF known = {} THEN u.file ELSE save_state(st2, _blocked)
                    lang == st2[uid].lang
                    confirm == Get(LANG_CONFIRM, lang, LANG_CONFIRM_OK)
                    reply == Platform("reply_text", confirm, MenuMarkup(lang))
                IN  Finish(st2, fl2, threads, up("confirmed"), Now, Now,
                           answered \o <<reply>> \o
                             (IF reply_fails
                              THEN <<Platform("send_message", confirm, MenuMarkup(lang))>>
                              ELSE <<>>),
                           <<>>, <<>>)

\* a callback_query update arrives; the dispatcher hands it to on_lang_callback
\* only when its data matches the handler's pattern
CallbackUpdate(uid, data, reply_fails) ==
    IF CallbackPatternMatches(data) THEN on_lang_callback(uid, data, reply_fails)
    ELSE Finish(_state, STATE_FILE, threads, Update("callback", uid, data, "unhandled", <<>>, <<>>),
                Now, Now, <<>>, <<>>, <<>>)

\* the reply of the handler after ask_assistant returned a (a.raised: the
\* exception leaves on_message and nothing is sent)
AnswerSent(before, a) ==
    before \o (IF a.raised THEN <<>> ELSE <<Platform("reply_text", a.ret, ReplyKeyboardRemove)>>)

\* on_message for a text update; doc_fails: send_document raises
on_message_text(uid, raw, o, doc_fails) ==
    LET up(route, key) == Update("text", uid, raw, route, key, <<>>)
    IN  IF uid \in _blocked THEN
            Finish(_state, STATE_FILE, threads, up("blocked", <<>>), Now, Now, <<>>, <<>>, <<>>)
        ELSE
          LET u == get_user(_state, STATE_FILE, _blocked, uid)
              U == [state |-> u.state, file |-> u.file, blocked |-> _blocked]
              lang == u.state[uid].lang
              text == strip(raw)
              key == _match_menu_key(lang, text)
              Reply(route, s) == Finish(u.state, u.file, threads, up(route, key), Now, U, s, <<>>, <<>>)
              Say(route, msg) == Reply(route, <<Platform("reply_text", msg, ReplyKeyboardRemove)>>)
          IN  IF text = <<>> THEN Reply("empty", <<>>)
              ELSE IF key = <<"lang">> THEN
                  Reply("lang", <<Platform("reply_text", Get(LANG_PROMPT, lang, LANG_PROMPT_DEFAULT),
                                           LangPickerMarkup)>>)
              ELSE IF key = <<"presentation">> THEN
                  IF env.PRESENTATION_FILE_ID = <<>> THEN
                      Say("presentation",
                          Get(PRESENTATION_MISSING_MSG, lang, PRESENTATION_MISSING_DEFAULT))
                  ELSE IF doc_fails THEN
                      Reply("presentation",
                            <<show_typing, Platform("send_document", env.PRESENTATION_FILE_ID, NoMarkup),
                              Platform("reply_text",
                                       Get(PRESENTATION_FAIL_MSG, lang, PRESENTATION_FAIL_DEFAULT),
                                       ReplyKeyboardRemove)>>)
                  ELSE
                      Reply("presentation",
                            <<show_typing, Platform("send_document", env.PRESENTATION_FILE_ID, NoMarkup),
                              Platform("reply_text",
                                       Get(PRESENTATION_DONE_MSG, lang, PRESENTATION_DONE_DEFAULT),
                                       ReplyKeyboardRemove)>>)
              ELSE IF key # <<>> /\ key[1] \in {"what", "price", "payback", "terms", "contacts"} THEN
                  LET gl == gold_lang(lang)
                      payload == IF key[1] = "contacts"
                                 THEN GOLD[gl].contacts \o CONTACTS_SEP
                                        \o Get(CONTACTS_TEXT, lang, CONTACTS_TEXT.RU)
                                 ELSE GOLD[gl][key[1]]
                  IN  Say("gold", payload)
              ELSE IF key = <<"lead">> THEN
                  Say("lead", Get(LEAD_MSG, lang, LEAD_MSG_DEFAULT))
              ELSE
                  \E a \in {ask_assistant(u.state, u.file, _blocked, threads, uid, text, lang, o)} :
                      FinishOn(a.state, a.file, a.threads,
                               Update("text", uid, raw, "free", key, <<text>>), Now, U,
                               AnswerSent(<<show_typing>>, a), a.calls,
                               IF a.raised THEN <<>> ELSE <<a.ret>>, a.on)

\* on_message for a voice update; fetched: get_file and the download succeed;
\* stt is <<>> when the transcription call raises, else <<its text>>
on_message_voice(uid, fetched, stt, o) ==
    LET heardText == IF fetched /\ stt # <<>> THEN stt[1] ELSE <<>>
        up(route) == Update("voice", uid, heardText, route, <<>>, <<>>)
    IN  IF uid \in _blocked THEN
            Finish(_state, STATE_FILE, threads, up("blocked"), Now, Now, <<>>, <<>>, <<>>)
        ELSE
          LET u == get_user(_state, STATE_FILE, _blocked, uid)
              U == [state |-> u.state, file |-> u.file, blocked |-> _blocked]
              lang == u.state[uid].lang
              spoken == IF fetched /\ stt # <<>> THEN strip(stt[1]) ELSE <<>>
              fetch == <<show_typing, Platform("get_file", <<>>, NoMarkup)>>
              heard == IF fetched THEN <<"audio.transcriptions.create">> ELSE <<>>
          IN  IF spoken = <<>> THEN
                  Finish(u.state, u.file, threads, up("voice_fail"), Now, U,
                         fetch \o <<Platform("reply_text", Get(VOICE_FAIL_MSG, lang, VOICE_FAIL_DEFAULT),
                                             ReplyKeyboardRemove)>>,
                         heard, <<>>)
              ELSE
                  \E a \in {ask_assistant(u.state, u.file, _blocked, threads, uid, spoken, lang, o)} :
                      FinishOn(a.state, a.file, a.threads,
                               Update("voice", uid, heardText, "voice", <<>>, <<spoken>>), Now, U,
                               AnswerSent(fetch \o <<show_typing>>, a), heard \o a.calls,
                               IF a.raised THEN <<>> ELSE <<a.ret>>, a.on)

(***************************************************************************)
(* Inputs.                                                                 *)
(***************************************************************************)
\* the reports of a run that is seen in progress and then, at the polls-th
\* poll, in status; "timeout" stands for a run still in progress when the
\* deadline passes after polls polls
Reports(status, polls) ==
    [i \in 1..polls |-> IF i < polls \/ status = "timeout" THEN "in_progress" ELSE status]

Outcome(exc, status, polls, msgs, vraise, vout) ==
    [exc |-> exc, reports |-> Reports(status, polls), msgs |-> msgs,
     vraise |-> vraise, vout |-> vout]

\* the run completes at the first poll with a clean draft the verifier keeps
DefaultOutcome == Outcome("none", "completed", 1, <<D_OK>>, FALSE, V_OK)

PipelineCalls == {"threads.create", "messages.create", "runs.create", "runs.retrieve",
                  "messages.list"}

ExcOutcomes == {Outcome(e, "completed", 1, <<D_OK>>, FALSE, V_OK) : e \in PipelineCalls}

EndOutcomes ==
    {Outcome("none", s, n, <<>>, FALSE, V_OK) :
        s \in {"failed", "cancelled", "expired", "timeout"}, n \in 1..MaxPolls}

VerifierResults ==
    {<<TRUE, <<>>>>, <<FALSE, <<>>>>, <<FALSE, V_OK>>, <<FALSE, V_NUMBER>>,
     <<FALSE, V_ALLOWED>>, <<FALSE, V_PADDED>>}

DoneOutcomes ==
    {Outcome("none", "completed", n, m, v[1], v[2]) :
        n \in {MaxPolls}, m \in {<<>>, <<<<>>>>, <<D_OK>>, <<D_LEGACY>>}, v \in VerifierResults}

Outcomes == {DefaultOutcome} \cup ExcOutcomes \cup EndOutcomes \cup DoneOutcomes

AllLabels == {MENU_LABELS[l][k] : l \in LANGS, k \in MENU_KEYS}

\* free texts for which every outcome of the collaborator is explored
ProbeTexts == {T_TERMS_Q}

FreeTexts == {T_HELLO, T_SELL40, T_EARN35, T_PROFIT_NONUM, T_PROFIT_YEAR, T_PROFIT_1150,
              T_SPAM7, T_SPAM9}

TextInputs == AllLabels \cup ProbeTexts \cup FreeTexts \cup {<<>>, T_SPACES}

OutcomesFor(raw) == IF raw \in ProbeTexts THEN Outcomes ELSE {DefaultOutcome}

PresentationLabels == {MENU_LABELS[l].presentation : l \in LANGS}

DocFailsFor(raw) == IF raw \in PresentationLabels THEN BOOLEAN ELSE {FALSE}

\* what the speech-to-text call returns: <<>> it raises, else <<text>>
Transcripts == {<<>>, <<T_SPACES>>, <<S_HELLO>>, <<T_EARN35>>, <<MENU_LABELS.RU.price>>}

CallbackData == {CB_UA, CB_RU, CB_EN, CB_FR, CB_UA_NL, CB_DE, CB_OTHER}

PRESENTATION_SAMPLE == <<102, 105, 108, 101, 95, 49>>

\* the environments explored: nothing optional set, or an owner and a presentation file
Envs == {[OWNER_TELEGRAM_ID |-> <<>>, PRESENTATION_FILE_ID |-> <<>>],
         [OWNER_TELEGRAM_ID |-> UserIdText(2), PRESENTATION_FILE_ID |-> PRESENTATION_SAMPLE]}

\* the state file found by main(): none, or one that lists blocked ids
InitialFiles == {<<>>} \cup {save_state(<<>>, b) : b \in SUBSET BlockedAtStart}

NoUpdate == Update("none", 0, <<>>, "none", <<>>, <<>>)

(***************************************************************************)
(* The bot: main() has taken the lock and loaded the state file.           *)
(***************************************************************************)
Init ==
    /\ STATE_FILE \in InitialFiles
    /\ _state = load_state(STATE_FILE).state
    /\ _blocked = load_state(STATE_FILE).blocked
    /\ env \in Envs
    /\ threads = 0
    /\ last = NoUpdate
    /\ pre = [state |-> _state, file |-> STATE_FILE, blocked |-> _blocked]
    /\ mid = [state |-> _state, file |-> STATE_FILE, blocked |-> _blocked]
    /\ sent = <<>>
    /\ calls = <<>>
    /\ ret = <<>>
    /\ leads = NoLeads
    /\ issued_on = <<>>
    /\ pc = PollingAlone
    /\ lock = LockTaken

\* the dispatcher holds no update: the previous handler has returned
Idle == last.kind = "none"

Start == Idle /\ UNCHANGED leads /\ \E uid \in Users : cmd_start(uid)

Status == Idle /\ UNCHANGED leads /\ \E uid \in Users : cmd_status(uid)

Callback ==
    /\ Idle
    /\ UNCHANGED leads
    /\ \E uid \in Users, data \in CallbackData, reply_fails \in BOOLEAN :
          CallbackUpdate(uid, data, reply_fails)

TextMessage ==
    /\ Idle
    /\ UNCHANGED leads
    /\ \E uid \in Users, raw \in TextInputs :
          \E o \in OutcomesFor(raw), doc_fails \in DocFailsFor(raw) :
              on_message_text(uid, raw, o, doc_fails)

VoiceMessage ==
    /\ Idle
    /\ UNCHANGED leads
    /\ \E uid \in Users, fetched \in BOOLEAN, stt \in Transcripts :
          on_message_voice(uid, fetched, stt, DefaultOutcome)

\* the dispatcher takes the next update from the queue; what the previous
\* handler did is no longer observed
NextUpdate ==
    /\ ~Idle
    /\ last' = NoUpdate
    /\ pre' = Now
    /\ mid' = Now
    /\ sent' = <<>>
    /\ calls' = <<>>
    /\ ret' = <<>>
    /\ issued_on' = <<>>
    /\ UNCHANGED <<_state, _blocked, STATE_FILE, env, threads, leads, pc, lock>>

Next == Start \/ Status \/ Callback \/ TextMessage \/ VoiceMessage \/ NextUpdate

Spec == Init /\ [][Next]_vars

(***************************************************************************)
(* The pure functions on their own: an input is drawn, the function is     *)
(* applied once and its result is left in ret.                             *)
(***************************************************************************)
CallInit(l) ==
    /\ _state = <<>>
    /\ _blocked = {}
    /\ STATE_FILE = <<>>
    /\ env = [OWNER_TELEGRAM_ID |-> <<>>, PRESENTATION_FILE_ID |-> <<>>]
    /\ threads = 0
    /\ last = l
    /\ pre = [state |-> <<>>, file |-> <<>>, blocked |-> {}]
    /\ mid = [state |-> <<>>, file |-> <<>>, blocked |-> {}]
    /\ sent = <<>>
    /\ calls = <<>>
    /\ ret = <<>>
    /\ leads = NoLeads
    /\ issued_on = <<>>
    /\ pc = PollingAlone
    /\ lock = LockTaken

Returned(kind, r) ==
    /\ last.kind = kind
    /\ ~last.done
    /\ ret' = <<r>>
    /\ last' = [last EXCEPT !.done = TRUE]
    /\ UNCHANGED <<_state, _blocked, STATE_FILE, env, threads, pre, mid, sent, calls, leads,
                   issued_on, pc, lock>>

\* the domain of cups (src/bot.py:502, 518)
MIN_CUPS == 1

MAX_CUPS == 200

\* rounding errors of the floating-point product, in thousandths
FloatErr == {0 - 1, 0, 1}

CalcInit ==
    \E lang \in LANGS, cups \in {<<>>} \cup {<<c>> : c \in MIN_CUPS..MAX_CUPS}, err \in FloatErr :
        CallInit([kind |-> "_profit_answer", lang |-> lang, cups |-> cups, err |-> err,
                  done |-> FALSE])

CalcCall == Returned("_profit_answer", _profit_answer_fp(last.lang, last.cups, last.err))

SpecCalc == CalcInit /\ [][CalcCall]_vars

\* texts made of a lead-in, a number as the user writes it and a unit
Prefixes == {P_NONE, P_DAYS, P_SHOPS, P_PROFIT}

Numbers == {0, 1, 7, 35, 40, 50, 120, 150, 200, 201, 250, 999, 1000, 1150, 2024}

Units == {U_NONE, U_CUPS, U_CUP, U_CUPS_GLUED, U_CHASHOK, U_CHASHEK, U_CHASH, U_SLASH_DAY,
          U_PER_DAY, U_V_DEN, U_SHOPS}

ParseInit ==
    \E prefix \in Prefixes, num \in Numbers, unit \in Units :
        CallInit([kind |-> "_parse_cups_per_day", prefix |-> prefix, num |-> num, unit |-> unit,
                  text |-> prefix \o Dec(num) \o unit, done |-> FALSE])

ParseCall == Returned("_parse_cups_per_day", _parse_cups_per_day(last.text))

SpecParse == ParseInit /\ [][ParseCall]_vars

MenuInit ==
    \E lang \in LANGS, text \in AllLabels \cup {T_HELLO} :
        CallInit([kind |-> "_match_menu_key", lang |-> lang, text |-> text, done |-> FALSE])

MenuCall == Returned("_match_menu_key", _match_menu_key(last.lang, last.text))

SpecMenu == MenuInit /\ [][MenuCall]_vars

(***************************************************************************)
(* The answer pipeline on its own: a session, a question and an outcome of *)
(* the collaborator are drawn; ask_assistant or _assistant_draft is called *)
(* once.  last.raised tells that the call ended in an exception.           *)
(***************************************************************************)
RUN_STATUSES == TERMINAL_STATUSES \cup {"queued", "in_progress"}

\* the sequences of 1..n elements of S
SeqsUpTo(S, n) == UNION {[1..m -> S] : m \in 1..n}

AskQuestions == {T_HELLO, T_TERMS_Q, Q_PRICE, Q_PRICE_TERMS, T_EARN35}

\* msgs of an outcome: no assistant message, one without text, one of
\* blanks, a clean draft, a draft with banned content
Drafts == {<<>>, <<<<>>>>, <<T_SPACES>>, <<D_OK>>, <<D_LEGACY>>}

AskVerifierResults == VerifierResults \cup {<<FALSE, T_SPACES>>, <<FALSE, V_LEGACY>>}

AskOutcomes ==
    {[exc |-> e, reports |-> <<"completed">>, msgs |-> <<D_OK>>, vraise |-> FALSE, vout |-> V_OK] :
        e \in PipelineCalls}
    \cup {[exc |-> "none", reports |-> r, msgs |-> <<D_OK>>, vraise |-> FALSE, vout |-> V_OK] :
             r \in SeqsUpTo(RUN_STATUSES, MaxPolls)}
    \cup {[exc |-> "none", reports |-> <<"completed">>, msgs |-> m, vraise |-> v[1], vout |-> v[2]] :
             m \in Drafts, v \in AskVerifierResults}

AskInit ==
    \E kind \in {"ask_assistant", "_assistant_draft"}, lang \in LANGS, threaded \in BOOLEAN,
       text \in AskQuestions, o \in AskOutcomes :
        /\ _state = [uid \in {1} |->
                        [lang |-> lang, thread_id |-> IF threaded THEN ThreadId(1) ELSE <<>>]]
        /\ _blocked = {}
        /\ STATE_FILE = save_state(_state, _blocked)
        /\ env = [OWNER_TELEGRAM_ID |-> <<>>, PRESENTATION_FILE_ID |-> <<>>]
        /\ threads = IF threaded THEN 1 ELSE 0
        /\ last = [kind |-> kind, uid |-> 1, lang |-> lang, text |-> text, o |-> o,
                   done |-> FALSE, raised |-> FALSE]
        /\ pre = [state |-> _state, file |-> STATE_FILE, blocked |-> _blocked]
        /\ mid = [state |-> _state, file |-> STATE_FILE, blocked |-> _blocked]
        /\ sent = <<>>
        /\ calls = <<>>
        /\ ret = <<>>
        /\ leads = NoLeads
        /\ issued_on = <<>>
        /\ pc = PollingAlone
        /\ lock = LockTaken

\* the call has ended with the result a
PipelineReturned(a) ==
    /\ _state' = a.state
    /\ STATE_FILE' = a.file
    /\ threads' = a.threads
    /\ calls' = a.calls
    /\ ret' = IF a.raised THEN <<>> ELSE <<a.ret>>
    /\ last' = [last EXCEPT !.done = TRUE, !.raised = a.raised]
    /\ issued_on' = a.on
    /\ UNCHANGED <<_blocked, env, pre, mid, sent, leads, pc, lock>>

AskCall ==
    /\ last.kind = "ask_assistant"
    /\ ~last.done
    /\ \E a \in {ask_assistant(_state, STATE_FILE, _blocked, threads, last.uid, last.text,
                               last.lang, last.o)} : PipelineReturned(a)

DraftCall ==
    /\ last.kind = "_assistant_draft"
    /\ ~last.done
    /\ \E a \in {_assistant_draft(_state, STATE_FILE, _blocked, threads, last.uid, last.text,
                                  last.lang, last.o)} : PipelineReturned(a)

AskNext == AskCall \/ DraftCall

SpecAsk == AskInit /\ [][AskNext]_vars

(***************************************************************************)
(* The lead conversation: users press the lead button and then send texts. *)
(* leads records, for the observer, what each user sent after the button;  *)
(* the handlers are those of Spec.                                         *)
(***************************************************************************)
\* the answers to the name, phone, email and message steps of the form
LEAD_ANSWERS == <<L_NAME, L_PHONE, L_EMAIL, L_MESSAGE>>

\* what a user sends at step n: the answer, or the label of a button
LeadTexts(n) == {LEAD_ANSWERS[n], MENU_LABELS.RU.price}

\* the fields of the lead form
LEAD_FIELDS == Len(LEAD_ANSWERS)

LeadInit == Init

\* a user presses the lead button of the session language
LeadButton ==
    \E uid \in Users \ _blocked :
        /\ leads[uid] = <<>>
        /\ on_message_text(uid,
                           MENU_LABELS[IF uid \in DOMAIN _state THEN _state[uid].lang ELSE "RU"].lead,
                           DefaultOutcome, FALSE)
        /\ leads' = [leads EXCEPT ![uid] = << <<>> >>]

\* a user who pressed the button sends the next text
LeadAnswer ==
    \E uid \in Users \ _blocked :
        /\ leads[uid] # <<>>
        /\ Len(leads[uid][1]) < LEAD_FIELDS
        /\ \E raw \in LeadTexts(Len(leads[uid][1]) + 1) :
              /\ on_message_text(uid, raw, DefaultOutcome, FALSE)
              /\ leads' = [leads EXCEPT ![uid] = <<Append(@[1], strip(raw))>>]

LeadNext == LeadButton \/ LeadAnswer

SpecLead == LeadInit /\ [][LeadNext]_vars

(***************************************************************************)
(* The state file on its own: a running process saves its state, the       *)
(* process ends, and the next one loads the file; or a first process       *)
(* starts with no file.                                                    *)
(***************************************************************************)
\* thread ids a session may hold
StoredThreads == {<<>>, ThreadId(1), ThreadId(12)}

\* the session maps of a running process
StoredStates ==
    UNION {[D -> [lang : LANGS, thread_id : StoredThreads]] : D \in SUBSET Users}

StateInit ==
    \E step \in {"running", "fresh"} :
        /\ _state \in (IF step = "running" THEN StoredStates ELSE {<<>>})
        /\ _blocked \in (IF step = "running" THEN SUBSET Users ELSE {{}})
        /\ STATE_FILE = <<>>
        /\ env = [OWNER_TELEGRAM_ID |-> <<>>, PRESENTATION_FILE_ID |-> <<>>]
        /\ threads = 0
        /\ last = [kind |-> "state", step |-> step]
        /\ pre = [state |-> _state, file |-> STATE_FILE, blocked |-> _blocked]
        /\ mid = [state |-> _state, file |-> STATE_FILE, blocked |-> _blocked]
        /\ sent = <<>>
        /\ calls = <<>>
        /\ ret = <<>>
        /\ leads = NoLeads
        /\ issued_on = <<>>
        /\ pc = PollingAlone
        /\ lock = LockTaken

\* the running process calls save_state
SaveState ==
    /\ last.step = "running"
    /\ STATE_FILE' = save_state(_state, _blocked)
    /\ last' = [last EXCEPT !.step = "saved"]
    /\ UNCHANGED <<_state, _blocked, env, threads, pre, mid, sent, calls, ret, leads, issued_on,
                   pc, lock>>

\* the process ends and another starts with the module's initial _state and
\* _blocked
Restart ==
    /\ last.step = "saved"
    /\ _state' = <<>>
    /\ _blocked' = {}
    /\ last' = [last EXCEPT !.step = "fresh"]
    /\ UNCHANGED <<STATE_FILE, env, threads, pre, mid, sent, calls, ret, leads, issued_on,
                   pc, lock>>

\* main calls load_state
LoadState ==
    /\ last.step = "fresh"
    /\ _state' = load_state(STATE_FILE).state
    /\ _blocked' = load_state(STATE_FILE).blocked
    /\ last' = [last EXCEPT !.step = "loaded"]
    /\ UNCHANGED <<STATE_FILE, env, threads, pre, mid, sent, calls, ret, leads, issued_on,
                   pc, lock>>

StateNext == SaveState \/ Restart \/ LoadState

SpecState == StateInit /\ [][StateNext]_vars

(***************************************************************************)
(* Bot processes started on one lock file.  A process runs main() step by  *)
(* step; between two steps any other process may take one of its own.  A   *)
(* process may end at any point, and the kernel then closes its lock       *)
(* handle; the lock file itself is never removed.                          *)
(***************************************************************************)
\* the places of main() after acquire_single_instance_lock_or_exit returned
RETURNED == {"acquired", "loaded", "polling"}

\* a flock that is granted though another process holds the lock
flock_shared(lk, p) == [lock |-> [lk EXCEPT !.holder = <<p>>], ok |-> TRUE]

\* fcntl.flock(LOCK_EX | LOCK_NB) for process p on the lock file lk: ok is
\* FALSE when it raises OSError
flock(lk, p) ==
    IF lk.holder = <<>> THEN [lock |-> [lk EXCEPT !.holder = <<p>>], ok |-> TRUE]
    ELSE [lock |-> lk, ok |-> FALSE]

\* os.open(O_CREAT | O_EXCL | O_WRONLY): ok is FALSE when it raises
\* FileExistsError
open_excl(lk) ==
    IF lk.exists THEN [lock |-> lk, ok |-> FALSE]
    ELSE [lock |-> [lk EXCEPT !.exists = TRUE], ok |-> TRUE]

LockInit ==
    /\ pc = [p \in Procs |-> "off"]
    /\ lock \in {[fcntl |-> f, exists |-> FALSE, holder |-> <<>>, pid |-> <<>>] : f \in BOOLEAN}
    /\ _state = <<>>
    /\ _blocked = {}
    /\ STATE_FILE = <<>>
    /\ env = [OWNER_TELEGRAM_ID |-> <<>>, PRESENTATION_FILE_ID |-> <<>>]
    /\ threads = 0
    /\ last = [kind |-> "lock", p |-> 0, from |-> "off", busy |-> FALSE]
    /\ pre = [state |-> <<>>, file |-> <<>>, blocked |-> {}]
    /\ mid = [state |-> <<>>, file |-> <<>>, blocked |-> {}]
    /\ sent = <<>>
    /\ calls = <<>>
    /\ ret = <<>>
    /\ leads = NoLeads
    /\ issued_on = <<>>

\* process p moves to the place to; busy: it found the lock taken
Goes(p, to, lk, busy) ==
    /\ pc' = [pc EXCEPT ![p] = to]
    /\ lock' = lk
    /\ last' = [kind |-> "lock", p |-> p, from |-> pc[p], busy |-> busy]
    /\ UNCHANGED <<_state, _blocked, STATE_FILE, env, threads, pre, mid, sent, calls, ret, leads,
                   issued_on>>

\* the process is started and enters main()
Launch(p) == pc[p] = "off" /\ Goes(p, "main", lock, FALSE)

\* open(lock_path, "w"): creates the file or truncates it
OpenLock(p) ==
    /\ pc[p] = "main"
    /\ lock.fcntl
    /\ Goes(p, "opened", [lock EXCEPT !.exists = TRUE, !.pid = <<>>], FALSE)

\* fcntl.flock; OSError becomes RuntimeError, which leaves main()
Flock(p) ==
    /\ pc[p] = "opened"
    /\ \E r \in {flock(lock, p)} :
          Goes(p, IF r.ok THEN "locked" ELSE "failed", r.lock, ~r.ok)

\* without fcntl: the exclusive create; FileExistsError becomes RuntimeError
ExclCreate(p) ==
    /\ pc[p] = "main"
    /\ ~lock.fcntl
    /\ \E r \in {open_excl(lock)} :
          Goes(p, IF r.ok THEN "locked" ELSE "failed", r.lock, ~r.ok)

\* the pid is written and flushed, and the function returns
WritePid(p) == pc[p] = "locked" /\ Goes(p, "acquired", [lock EXCEPT !.pid = <<p>>], FALSE)

\* load_state()
LoadAfterLock(p) == pc[p] = "acquired" /\ Goes(p, "loaded", lock, FALSE)

\* build_app(), the add_handler calls and run_polling
StartPolling(p) == pc[p] = "loaded" /\ Goes(p, "polling", lock, FALSE)

\* the process ends (the RuntimeError, a signal, a crash): its handle is
\* closed, which releases its flock; the file stays
Exit(p) ==
    /\ pc[p] # "off"
    /\ Goes(p, "off", [lock EXCEPT !.holder = IF @ = <<p>> THEN <<>> ELSE @], FALSE)

LockNext ==
    \E p \in Procs :
        \/ Launch(p)
        \/ OpenLock(p)
        \/ Flock(p)
        \/ ExclCreate(p)
        \/ WritePid(p)
        \/ LoadAfterLock(p)
        \/ StartPolling(p)
        \/ Exit(p)

SpecLock == LockInit /\ [][LockNext]_vars

(***************************************************************************)
(* Properties.                                                             *)
(***************************************************************************)
Handled == last.kind \in {"start", "status", "callback", "text", "voice"}

\* the calls of the answer pipeline among the collaborator calls of the handler
PipelineCallsMade ==
    {calls[i] : i \in DOMAIN calls} \cap (PipelineCalls \cup {"chat.completions.create"})

\* the language of the sender's session while the handler ran
SessionLang == mid.state[last.uid].lang

\* ask_assistant was called and returned
Asked == Handled /\ last.asked # <<>>

\* C1: for a blocked sender no handler does any processing: nothing is sent,
\* no platform or collaborator call is made, and neither the session map nor
\* the state file changes.
C1_BlockedSenderIgnored ==
    (Handled /\ last.uid \in _blocked) =>
        /\ sent = <<>>
        /\ calls = <<>>
        /\ _state = pre.state
        /\ _blocked = pre.blocked
        /\ STATE_FILE = pre.file

\* C2: the text "if I sell 40 cups a day how much do I make" is answered with
\* the calculator figures for 40 cups (gross 2 160, net 1 560 to 1 710) and
\* without any call of the answer pipeline.
C2_Sell40UsesCalculator ==
    (Asked /\ last.asked[1] = T_SELL40) =>
        /\ PipelineCallsMade = {}
        /\ ret # <<>>
        /\ Contains(ret[1], Grouped(2160) \o EURO_SUFFIX)
        /\ Contains(ret[1], Grouped(1560) \o EURO_SUFFIX)
        /\ Contains(ret[1], Grouped(1710) \o EURO_SUFFIX)

\* an amount of whole euros as the answers show it
AmountText(n) == (IF n < 0 THEN <<45>> ELSE <<>>) \o Grouped(Abs(n)) \o EURO_SUFFIX

\* the answer of the calculator for a language and an optional cups figure,
\* written out from the figures 54 * cups, 54 * cups - 600 and 54 * cups - 450
ExpectedProfitText(lang, cups) ==
    IF cups = <<>> THEN PROFIT_QUESTION[lang]
    ELSE LET c == cups[1]
             P == PROFIT_PARTS[lang]
         IN  P[1] \o Dec(c) \o P[2] \o Dec(c) \o P[3] \o AmountText(54 * c)
               \o P[4] \o AmountText(54 * c - 600) \o P[5] \o AmountText(54 * c - 450) \o P[6]

CalcReturned == last.kind = "_profit_answer" /\ last.done

ParseReturned == last.kind = "_parse_cups_per_day" /\ last.done

\* C4: "35 cups" and "35 chashok" give 35, and a text whose cup count is a
\* number outside 1..200 gives None, never a part of that number.
C4_CupsExactOrNone ==
    (ParseReturned /\ last.prefix = P_NONE /\ last.unit \in {U_CUPS, U_CHASHOK}) =>
        /\ last.num = 35 => ret = << <<35>> >>
        /\ ~InRange(last.num) => ret = << <<>> >>

\* C5: when the text holds several numbers in 1..200, the one directly before
\* a unit word (cups, chashok, chashek) is returned.
C5_UnitNumberPreferred ==
    (/\ ParseReturned
     /\ last.prefix \in {P_DAYS, P_SHOPS}
     /\ last.unit \in {U_CUPS, U_CHASHOK, U_CHASHEK}
     /\ InRange(last.num)) =>
        ret = << <<last.num>> >>

\* the numbers a text states: the values of its maximal runs of digits
StatedNumbers(t) ==
    {IntOf(t, i, n) : <<i, n>> \in
        {w \in (1..Len(t)) \X (1..Len(t)) :
            /\ AllDigits(t, w[1], w[2])
            /\ (w[1] = 1 \/ ~IsDigit(t[w[1] - 1]))
            /\ (w[1] + w[2] > Len(t) \/ ~IsDigit(t[w[1] + w[2]]))}}

\* C6: a text with a profit cue and no number in 1..200 is answered with the
\* clarifying question of the session language, computed from no guessed
\* value and without any call of the answer pipeline.
C6_CueWithoutNumberAsks ==
    (/\ Asked
     /\ ContainsAny(lower(last.asked[1]), PROFIT_KEYS)
     /\ \A v \in StatedNumbers(last.asked[1]) : ~InRange(v)) =>
        /\ ret = <<PROFIT_QUESTION[SessionLang]>>
        /\ PipelineCallsMade = {}

\* texts with a profit cue, and the cups figure each of them states
CalculatorTexts ==
    {T_EARN35, T_PROFIT_NONUM, T_PROFIT_YEAR} \cup {MENU_LABELS[l].payback : l \in LANGS}

StatedCups(t) == IF t = T_EARN35 THEN <<35>> ELSE <<>>

\* C7: the calculator path is pure: the answer to a profit-cue text is fixed
\* by the text and the language alone, and the call leaves the session map
\* with every thread_id, the blocked set and the state file as they were and
\* calls no collaborator.
C7_CalculatorPathPure ==
    (Asked /\ last.asked[1] \in CalculatorTexts \cup {T_PROFIT_1150}) =>
        /\ last.asked[1] \in CalculatorTexts =>
              ret = <<ExpectedProfitText(SessionLang, StatedCups(last.asked[1]))>>
        /\ _state = mid.state
        /\ _blocked = mid.blocked
        /\ STATE_FILE = mid.file
        /\ PipelineCallsMade = {}

\* C7 witness: a user without a thread got the figures for 35 cups
C7_CalculatorAnswered ==
    /\ Asked
    /\ last.asked[1] = T_EARN35
    /\ _state[last.uid].thread_id = <<>>
    /\ ret = <<ExpectedProfitText(SessionLang, <<35>>)>>

\* the text is the label of a button in a language other than the session's
ForeignLabel ==
    /\ last.kind = "text"
    /\ last.route # "blocked"
    /\ \E l \in LANGS \ {SessionLang} : \E k \in MENU_KEYS : last.text = MENU_LABELS[l][k]

\* C8: a button label of language A sent while the session language is B is
\* matched to no menu action and goes to the free-text path.
C8_ForeignLabelIsFreeText ==
    ForeignLabel => (last.key = <<>> /\ last.route = "free" /\ last.asked = <<last.text>>)

\* C8 witness: the Ukrainian price label was sent in an English session
C8_ForeignLabelSent ==
    /\ ForeignLabel
    /\ SessionLang = "EN"
    /\ last.text = MENU_LABELS.UA.price
    /\ last.route = "free"

MenuReturned == last.kind = "_match_menu_key" /\ last.done

\* C9: in each of the four languages the eight menu actions have pairwise
\* distinct labels, and the lookup of a label of the language returns its action.
C9_LabelsUnique ==
    /\ DOMAIN MENU_LABELS = LANGS
    /\ \A l \in LANGS :
          /\ DOMAIN MENU_LABELS[l] = MENU_KEYS
          /\ \A j, k \in MENU_KEYS : j # k => MENU_LABELS[l][j] # MENU_LABELS[l][k]
    /\ MenuReturned =>
          \A k \in MENU_KEYS : last.text = MENU_LABELS[last.lang][k] => ret = << <<k>> >>

\* C9 witness: the French presentation label was looked up in French
C9_LabelLookedUp ==
    /\ MenuReturned
    /\ last.lang = "FR"
    /\ last.text = MENU_LABELS.FR.presentation
    /\ ret = << <<"presentation">> >>

\* the text is the label of the what, price, payback or terms button a in
\* the session language
GoldButton(a) ==
    /\ last.kind = "text"
    /\ last.route # "blocked"
    /\ last.text = MENU_LABELS[SessionLang][a]

\* C10: the what, price, payback and terms buttons of the session language
\* are answered by exactly one reply, the GOLD text of the action in that
\* language, with no collaborator call and the thread_id left as it was.
C10_GoldButtonAnswer ==
    \A a \in {"what", "price", "payback", "terms"} :
        GoldButton(a) =>
            /\ sent = <<Platform("reply_text", GOLD[SessionLang][a], ReplyKeyboardRemove)>>
            /\ calls = <<>>
            /\ _state[last.uid].thread_id =
                  (IF last.uid \in DOMAIN pre.state THEN pre.state[last.uid].thread_id ELSE <<>>)

\* C10 witness: a French user who has a thread pressed the price button
C10_GoldButtonPressed ==
    /\ GoldButton("price")
    /\ SessionLang = "FR"
    /\ _state[last.uid].thread_id # <<>>
    /\ Len(sent) = 1

\* the labels of a keyboard, row after row
RECURSIVE Buttons(_)
Buttons(rows) == IF rows = <<>> THEN <<>> ELSE Head(rows) \o Buttons(Tail(rows))

\* the language of the sender's session when the handler started, RU for a
\* sender seen for the first time
LangAtStart ==
    IF last.uid \in DOMAIN pre.state THEN pre.state[last.uid].lang ELSE "RU"

AskReturned == last.kind = "ask_assistant" /\ last.done

DraftReturned == last.kind = "_assistant_draft" /\ last.done

\* C12: whatever call of the collaborator raises, ask_assistant ends by
\* returning a string and not with an exception.
C12_PipelineErrorsCaught ==
    AskReturned => (~last.raised /\ ret # <<>>)

\* C13: when no collaborator call raises, ask_assistant returns a string
\* that is not empty, for every question, language, sequence of run
\* statuses, content of the thread and result of the verifier.
C13_AnswerNonEmpty ==
    (AskReturned /\ (last.o.exc = "none" \/ ~last.raised)) =>
        (ret # <<>> /\ ret[1] # <<>>)

\* C13 witness: the assistant message and the verifier's text were blank and
\* the fixed text of the empty draft was returned
C13_BlankDraftAnswered ==
    /\ AskReturned
    /\ last.o.msgs = <<T_SPACES>>
    /\ last.o.vout = T_SPACES
    /\ ~last.o.vraise
    /\ ret = <<DRAFT_EMPTY_FALLBACK>>

\* the polls at which a terminal status is reported
TerminalPolls(reports) == {i \in 1..Len(reports) : reports[i] \in TERMINAL_STATUSES}

\* the poll after which the loop must be over: the first with a terminal
\* status, else the last one before the deadline
LastPoll(reports) ==
    IF TerminalPolls(reports) = {} THEN Len(reports)
    ELSE CHOOSE i \in TerminalPolls(reports) : \A j \in TerminalPolls(reports) : i <= j

\* the run was seen completed when the loop ended
SeenCompleted(reports) ==
    TerminalPolls(reports) # {} /\ reports[LastPoll(reports)] = "completed"

RetrieveCount == Cardinality({i \in 1..Len(calls) : calls[i] = "runs.retrieve"})

\* C14: the polling loop of _assistant_draft ends at the first poll that
\* reports completed, failed, cancelled or expired, and at the latest with
\* the last poll before the deadline; when the run was not seen completed
\* by then, the function returns the fixed question of the language and
\* does not list the messages of the thread.
C14_PollingEndsWithFallback ==
    (DraftReturned /\ ~last.raised) =>
        /\ RetrieveCount = LastPoll(last.o.reports)
        /\ ~SeenCompleted(last.o.reports) =>
              /\ ret = <<DraftFallback[last.lang]>>
              /\ \A i \in 1..Len(calls) : calls[i] # "messages.list"

\* C14 witness: the run was reported failed at the first poll, although a
\* later poll would have reported it completed
C14_FailedRunAnswered ==
    /\ DraftReturned
    /\ last.o.reports = <<"failed", "completed">>
    /\ RetrieveCount = 1
    /\ ret = <<DraftFallback[last.lang]>>

\* the curated answer that fits a question (price before terms, else what)
ExpectedIntent(question) ==
    IF question \in {Q_PRICE, Q_PRICE_TERMS} THEN "price"
    ELSE IF question = T_TERMS_Q THEN "terms"
    ELSE "what"

\* the verifier was called and failed: it raised, or its text holds banned
\* content or a number outside the allow-list
VerifierFailed ==
    /\ \E i \in 1..Len(calls) : calls[i] = "chat.completions.create"
    /\ \/ last.o.vraise
       \/ looks_like_legacy_franchise(strip(last.o.vout))
       \/ _has_disallowed_numbers(strip(last.o.vout))

\* C15: when the verifier call raises, or its text still holds banned
\* content or a number outside the allow-list, ask_assistant returns the
\* GOLD answer of the language chosen by the question (price, payback,
\* terms, else what), never the draft or the verifier's text.
C15_VerifierFailureGivesGold ==
    (AskReturned /\ ~last.raised /\ VerifierFailed) =>
        ret = <<GOLD[last.lang][ExpectedIntent(last.text)]>>

IsCyrillic(c) == c \in 1024..1279

\* letters of the Ukrainian alphabet that Russian lacks, and the reverse
UKRAINIAN_ONLY == {1028, 1030, 1031, 1168, 1108, 1110, 1111, 1169}

RUSSIAN_ONLY == {1066, 1067, 1069, 1025, 1098, 1099, 1101, 1105}

\* what the letters of a text tell about its language: an English or French
\* text has no Cyrillic letter, a Ukrainian or Russian one has some and none
\* that only the other alphabet has
WrittenIn(t, lang) ==
    IF lang \in {"EN", "FR"} THEN \A i \in 1..Len(t) : ~IsCyrillic(t[i])
    ELSE /\ \E i \in 1..Len(t) : IsCyrillic(t[i])
         /\ \A i \in 1..Len(t) :
               t[i] \notin (IF lang = "UA" THEN RUSSIAN_ONLY ELSE UKRAINIAN_ONLY)

\* _assistant_draft returned one of its fixed texts and not a text of the assistant
FixedDraftReturned ==
    /\ DraftReturned
    /\ ~last.raised
    /\ \/ ~SeenCompleted(last.o.reports)
       \/ last.o.msgs = <<>>
       \/ strip(last.o.msgs[1]) = <<>>

\* C16: every fixed text that _assistant_draft returns on a failure (run not
\* completed, no assistant message, assistant message without text) is
\* written in the language of the session, for UA, RU, EN and FR.
C16_FallbackInSessionLanguage ==
    FixedDraftReturned => WrittenIn(ret[1], last.lang)

\* the menu keys whose label in the session language is the text t
LabelKeys(t) == {k \in MENU_KEYS : t = MENU_LABELS[SessionLang][k]}

\* C17: a voice message with the transcript T is handled as the typed text
\* T: when T is a button label of the session language the button's branch
\* answers and ask_assistant is not called (for the curated buttons the
\* reply is the GOLD text); otherwise T is handed to ask_assistant.
C17_VoiceHandledAsTyped ==
    (last.kind = "voice" /\ last.route = "voice") =>
        LET T == strip(last.text)
        IN  IF LabelKeys(T) # {} THEN
                /\ last.asked = <<>>
                /\ PipelineCallsMade = {}
                /\ \A k \in LabelKeys(T) \cap {"what", "price", "payback", "terms"} :
                      sent[Len(sent)] =
                          Platform("reply_text", GOLD[SessionLang][k], ReplyKeyboardRemove)
            ELSE last.asked = <<T>>

\* the sender of the update is the configured owner
SenderIsOwner == env.OWNER_TELEGRAM_ID # <<>> /\ UserIdText(last.uid) = env.OWNER_TELEGRAM_ID

\* C18: /status is answered only for the configured owner; for any other
\* sender, also when OWNER_TELEGRAM_ID is not set, nothing is sent.
C18_StatusOnlyForOwner ==
    last.kind = "status" =>
        /\ SenderIsOwner => (Len(sent) = 1 /\ sent[1].op = "reply_text")
        /\ ~SenderIsOwner => sent = <<>>

\* the last update was an answer to the lead form of its sender
LeadAnswered ==
    /\ last.kind = "text"
    /\ leads[last.uid] # <<>>
    /\ leads[last.uid][1] # <<>>

\* the messages of the last handler that carry the four fields and the id
\* of the user to the operator
LeadNotifications ==
    {i \in 1..Len(sent) :
        /\ sent[i].op = "send_message"
        /\ \A n \in 1..LEAD_FIELDS : Contains(sent[i].text, leads[last.uid][1][n])
        /\ Contains(sent[i].text, UserIdText(last.uid))}

\* C19: after the lead button every text of the user is taken as the next
\* field of the form and goes neither to the menu nor to the answer
\* pipeline, and with the fourth field the operator gets exactly one
\* message that holds the four fields and the user's id.
C19_LeadFormCollects ==
    LeadAnswered =>
        /\ last.route \notin {"gold", "free", "lang", "presentation"}
        /\ last.asked = <<>>
        /\ PipelineCallsMade = {}
        /\ Len(leads[last.uid][1]) = LEAD_FIELDS => Cardinality(LeadNotifications) = 1


\* one character repeated seven times or more
IsRepeated(t) == Len(t) >= 7 /\ \A i \in 1..Len(t) : t[i] = t[1]

\* C20: a text of one character repeated seven or more times is rejected as
\* spam: the sender gets a reply, the text is not passed to ask_assistant
\* and no call to a collaborator is made for the update.
C20_RepeatedCharIsSpam ==
    (last.kind = "text" /\ last.route # "blocked" /\ IsRepeated(strip(last.text))) =>
        /\ last.route # "free"
        /\ last.asked = <<>>
        /\ calls = <<>>
        /\ \E i \in DOMAIN sent : sent[i].op # "send_chat_action"

\* C21: a text update whose text is empty or only whitespace is a no-op for
\* every sender: nothing is sent, no collaborator is called, and the session
\* map and the state file are what they were when the handler started.
C21_EmptyTextIsNoOp ==
    (last.kind = "text" /\ strip(last.text) = <<>>) =>
        /\ sent = <<>>
        /\ calls = <<>>
        /\ _state = pre.state
        /\ STATE_FILE = pre.file

\* the users whose session holds a thread in the session map st
Threaded(st) == {uid \in DOMAIN st : st[uid].thread_id # <<>>}

\* the handler that ran last called threads.create n times
ThreadCreates == Cardinality({i \in DOMAIN calls : calls[i] = "threads.create"})

\* what the handler that ran last did with the sender's thread: its message
\* and run calls went to the thread_id the state file holds for the sender,
\* it asked for a new thread only when the sender had none, and the threads
\* the collaborator created are one for each user that holds one
ThreadKept ==
    /\ issued_on # <<>> =>
          /\ issued_on[1] # <<>>
          /\ issued_on[1] = _state[last.uid].thread_id
          /\ issued_on[1] = STATE_FILE[1].users[last.uid].thread_id
    /\ ThreadCreates <= 1
    /\ ThreadCreates = 1 => last.uid \notin Threaded(pre.state)
    /\ threads = Cardinality(Threaded(_state))
    /\ \A a, b \in Threaded(_state) : _state[a].thread_id = _state[b].thread_id => a = b
    /\ load_state(STATE_FILE).state = _state

\* no step changes a thread_id that is not empty
ThreadIdStable ==
    \A uid \in Threaded(_state) :
        uid \in DOMAIN _state' /\ _state'[uid].thread_id = _state[uid].thread_id

\* C22: the message and run calls of a user's question are issued on the
\* user's persisted thread_id; threads.create is called only when the
\* thread_id is empty and the new id is saved, so over any sequence of updates
\* at most one thread is created for a user and a thread_id that is not empty
\* never changes.  (The dispatcher awaits each handler before it takes the
\* next update, so the updates of a user interleave only as sequences.)
C22_OneThreadPerUser == [](ThreadKept) /\ [][ThreadIdStable]_vars

\* a user who already holds a thread asked a second question and it went to
\* that thread without a new one being created
C22_SecondQuestionSameThread ==
    /\ last.asked # <<>>
    /\ issued_on # <<>>
    /\ last.uid \in Threaded(pre.state)
    /\ issued_on[1] = pre.state[last.uid].thread_id
    /\ ThreadCreates = 0

\* what load_state would restore from the file is what the memory m holds
InFile(m) == load_state(m.file) = [state |-> m.state, blocked |-> m.blocked]

\* C23: between handlers, and when a handler enters ask_assistant, the state
\* file holds the in-memory state: every change of the session map (a new
\* user, a new thread_id, a new lang) has been followed by save_state, which
\* writes the whole blocked set and the lang and thread_id of every user.
C23_FileEqualsMemory ==
    /\ InFile(Now)
    /\ InFile(mid)
    /\ _state # pre.state => STATE_FILE = save_state(_state, _blocked)

\* a known user changed the language while another id was blocked: the file
\* was rewritten with the new lang and the blocked list
C23_LangSavedWithTheRest ==
    /\ last.kind = "callback"
    /\ last.route = "confirmed"
    /\ last.uid \in DOMAIN pre.state
    /\ pre.state[last.uid].lang # _state[last.uid].lang
    /\ _blocked # {}
    /\ STATE_FILE # pre.file
    /\ STATE_FILE[1].blocked # <<>>

\* load_state has run in the state-file scenario
StateLoaded == last.kind = "state" /\ last.step = "loaded"

\* C24: load_state with no file gives the empty session map and the empty
\* blocked set; save_state followed by load_state restores the blocked set and
\* the lang and thread_id of every user exactly.
C24_SaveLoadRoundTrip ==
    StateLoaded =>
        /\ STATE_FILE = <<>> => (DOMAIN _state = {} /\ _blocked = {})
        /\ _blocked = pre.blocked
        /\ DOMAIN _state = DOMAIN pre.state
        /\ \A uid \in DOMAIN _state :
              /\ _state[uid].lang = pre.state[uid].lang
              /\ _state[uid].thread_id = pre.state[uid].thread_id

\* a state with two blocked ids and two sessions of different lang, one of
\* them with a thread, came back from the file
C24_FullStateRestored ==
    /\ StateLoaded
    /\ STATE_FILE # <<>>
    /\ Cardinality(_blocked) = Cardinality(Users)
    /\ DOMAIN _state = Users
    /\ \E a, b \in Users : /\ _state[a].lang # _state[b].lang
                           /\ _state[a].thread_id # <<>>
                           /\ _state[b].thread_id = <<>>

\* the processes that have returned from acquire_single_instance_lock_or_exit
Returnees == {p \in Procs : pc[p] \in RETURNED}

\* a process that found the lock taken does nothing but end
FailsAtOnce ==
    \A p \in Procs :
        /\ (pc[p] = "failed" /\ pc'[p] # "failed") => pc'[p] = "off"
        /\ (pc'[p] = "failed" /\ pc[p] # "failed") => pc[p] \in {"main", "opened"}
        /\ (pc'[p] \in RETURNED /\ pc[p] \notin RETURNED) => pc[p] = "locked"

\* C25: of the processes started on one lock file at most one at a time has
\* returned from acquire_single_instance_lock_or_exit and loads the state or
\* polls; a process that finds the lock taken fails at once, without a retry,
\* before load_state and before a handler is registered.
C25_SingleInstance ==
    /\ [](Cardinality(Returnees) <= 1)
    /\ [](last.busy => pc[last.p] = "failed")
    /\ [][FailsAtOnce]_vars

\* a process found the lock taken by a process that is polling
C25_SecondInstanceRefused ==
    /\ last.kind = "lock"
    /\ last.busy
    /\ pc[last.p] = "failed"
    /\ \E q \in Procs \ {last.p} : pc[q] = "polling"

\* the last handler was on_lang_callback for user uid with the code of lang l
LangChosen(uid, l) ==
    /\ last.kind = "callback"
    /\ last.uid = uid
    /\ last.text = CB_PREFIX \o LangText[l]

\* C26: from an empty state on, the lang of every session is one of LANGS: a
\* new session has RU, on_lang_callback sets lang only to a callback code
\* that is in LANGS, and no other handler changes lang.
C26_LangAlwaysKnown ==
    \A uid \in DOMAIN _state :
        /\ _state[uid].lang \in LANGS
        /\ _state[uid].lang \in {"UA", "RU", "EN", "FR"}
        /\ uid \notin DOMAIN pre.state =>
              (_state[uid].lang = UserState.lang \/ LangChosen(uid, _state[uid].lang))
        /\ uid \in DOMAIN pre.state =>
              (_state[uid].lang = pre.state[uid].lang \/ LangChosen(uid, _state[uid].lang))

\* a user who had chosen French pressed a callback whose data passes the
\* handler's pattern without being a code of LANGS, and stayed French
C26_UnknownCodeKeepsLang ==
    /\ last.kind = "callback"
    /\ last.route = "confirmed"
    /\ \A l \in LANGS : last.text # CB_PREFIX \o LangText[l]
    /\ last.uid \in DOMAIN pre.state
    /\ pre.state[last.uid].lang = "FR"
    /\ _state[last.uid].lang = "FR"

\* C27: a text that ask_assistant returns from the path through the
\* assistant, each GOLD answer of _final_safety_override included, passes the
\* two safety checks: no pattern of BANNED_PATTERNS is found in it and it has
\* no digit outside the allowed numbers.
C27_ReturnedTextIsSafe ==
    (AskReturned /\ ~last.raised /\ calls # <<>>) =>
        /\ ~looks_like_legacy_franchise(ret[1])
        /\ ~_has_disallowed_numbers(ret[1])
=============================================================================
